---- MODULE Spec2Model ----
(***************************************************************************)
(* PDF-Manager: the page operations of src-tauri/src/pdf (extract, split,  *)
(* merge, delete, rotate) as a state machine over an object graph.         *)
(*                                                                         *)
(* An object identifier is its object number (the generation is 0 in every *)
(* document the operations build, and is carried unchanged by merge).      *)
(* A dictionary object is a record; every reference-valued entry is a      *)
(* sequence of identifiers: the empty sequence is an absent entry, a       *)
(* one-element sequence a single reference, Kids and Refs are arrays.      *)
(* The entries are visited in the order Parent, Kids, Contents, Resources, *)
(* Pages, Refs.  Entries holds the entries of a dictionary that are not    *)
(* references (the strings and numbers of an Info dictionary), in the      *)
(* dictionary's order.  A document is its object table, its identifier     *)
(* counter and the Root and Info entries of its trailer.                   *)
(***************************************************************************)
EXTENDS Integers, Sequences, FiniteSets, TLC

VARIABLES op, pc, args, fs, fs0, log, result, doc, new_doc, cp, loc

vars == <<op, pc, args, fs, fs0, log, result, doc, new_doc, cp, loc>>

----------------------------------------------------------------------------
(* Bounds of the explored inputs *)

MaxListLen == 3
MaxPageNum == 4
MaxPaths == 3

----------------------------------------------------------------------------
(* Object model *)

Range(s) == {s[i] : i \in DOMAIN s}

MkObj(type, parent, kids, count, contents, resources, pages, refs, rotate) ==
    [Type |-> type, Parent |-> parent, Kids |-> kids, Count |-> count,
     Contents |-> contents, Resources |-> resources, Pages |-> pages,
     Refs |-> refs, Rotate |-> rotate, Entries |-> <<>>]

PageObj(parent, contents, resources, refs, rotate) ==
    MkObj("Page", <<parent>>, <<>>, 0, contents, resources, <<>>, refs, rotate)

PagesObj(parent, kids, count) ==
    MkObj("Pages", parent, kids, count, <<>>, <<>>, <<>>, <<>>, <<>>)

CatalogObj(pages) ==
    MkObj("Catalog", <<>>, <<>>, 0, <<>>, <<>>, <<pages>>, <<>>, <<>>)

OtherObj(type, refs) ==
    MkObj(type, <<>>, <<>>, 0, <<>>, <<>>, <<>>, refs, <<>>)

(* the trailer's Info entry: absent, a reference, or a direct object *)
NoInfo == [present |-> FALSE, isRef |-> FALSE, id |-> 0]

InfoRef(id) == [present |-> TRUE, isRef |-> TRUE, id |-> id]

InfoDirect == [present |-> TRUE, isRef |-> FALSE, id |-> 0]

(* a string entry (key bytes, value bytes) and an entry of another type *)
StringEntry(key, bytes) == [key |-> key, isString |-> TRUE, bytes |-> bytes]

IntegerEntry(key) == [key |-> key, isString |-> FALSE, bytes |-> <<>>]

InfoDict(entries) == [OtherObj("Dictionary", <<>>) EXCEPT !.Entries = entries]

EmptyDoc == [objects |-> <<>>, max_id |-> 0, Root |-> 0, Info |-> NoInfo]

(* Document::new_object_id: bump the counter, return it *)
NewObjectId(d) == [d EXCEPT !.max_id = d.max_id + 1]

(* Document::add_object: allocate a fresh identifier and insert under it *)
AddObject(d, o) ==
    [d EXCEPT !.max_id = d.max_id + 1,
              !.objects = ((d.max_id + 1) :> o) @@ d.objects]

(* objects.insert(id, o): insert or overwrite, the counter is not touched *)
InsertObject(d, id, o) == [d EXCEPT !.objects = (id :> o) @@ d.objects]

HasObject(d, id) == id \in DOMAIN d.objects

----------------------------------------------------------------------------
(* The files on disk.  a.pdf is the three-page document the tests build    *)
(* (create_minimal_pdf); b.pdf has an intermediate tree node, stored       *)
(* rotations, two fonts referencing each other and one unresolved          *)
(* reference; c.pdf is a one-page document whose page holds seven          *)
(* unresolved references (to the object numbers 4..10, which the document  *)
(* does not have), d.pdf one whose page holds fifteen; x.txt is not a PDF; *)
(* missing.pdf does not exist.                                             *)

MinimalPdf ==
    [objects |->
        (1 :> PagesObj(<<>>, <<5, 7, 9>>, 3)) @@
        (2 :> OtherObj("Font", <<>>)) @@
        (3 :> OtherObj("Resources", <<2>>)) @@
        (4 :> OtherObj("Stream", <<>>)) @@
        (5 :> PageObj(1, <<4>>, <<3>>, <<>>, <<>>)) @@
        (6 :> OtherObj("Stream", <<>>)) @@
        (7 :> PageObj(1, <<6>>, <<3>>, <<>>, <<>>)) @@
        (8 :> OtherObj("Stream", <<>>)) @@
        (9 :> PageObj(1, <<8>>, <<3>>, <<>>, <<>>)) @@
        (10 :> CatalogObj(1)),
     max_id |-> 10, Root |-> 10, Info |-> NoInfo]

NestedPdf ==
    [objects |->
        (1 :> CatalogObj(2)) @@
        (2 :> PagesObj(<<>>, <<3>>, 2)) @@
        (3 :> PagesObj(<<2>>, <<4, 5>>, 2)) @@
        (4 :> PageObj(3, <<6>>, <<7>>, <<>>, <<270>>)) @@
        (5 :> PageObj(3, <<8>>, <<7>>, <<>>, <<-450>>)) @@
        (6 :> OtherObj("Stream", <<>>)) @@
        (7 :> OtherObj("Resources", <<9>>)) @@
        (8 :> OtherObj("Stream", <<>>)) @@
        (9 :> OtherObj("Font", <<10>>)) @@
        (10 :> OtherObj("Font", <<9, 55>>)),
     max_id |-> 10, Root |-> 1, Info |-> NoInfo]

DanglingPdf ==
    [objects |->
        (1 :> CatalogObj(2)) @@
        (2 :> PagesObj(<<>>, <<3>>, 1)) @@
        (3 :> PageObj(2, <<>>, <<>>, <<4, 5, 6, 7, 8, 9, 10>>, <<90>>)),
     max_id |-> 3, Root |-> 1, Info |-> NoInfo]

ManyDanglingPdf ==
    [objects |->
        (1 :> CatalogObj(2)) @@
        (2 :> PagesObj(<<>>, <<3>>, 1)) @@
        (3 :> PageObj(2, <<>>, <<>>, [i \in 1..15 |-> 200 + i], <<>>)),
     max_id |-> 3, Root |-> 1, Info |-> NoInfo]

(* The files parse_pdf is given besides those: the document of            *)
(* create_test_pdf (an empty page tree, a catalog) with an Info dictionary *)
(* of four string entries, Title in UTF-16BE with a byte order mark,       *)
(* Author in PDFDocEncoding, two whose keys are the single bytes FF and    *)
(* FE, and one integer entry (info.pdf); with Info a direct dictionary     *)
(* (direct.pdf); with Info referencing an array (badref.pdf); with Info    *)
(* referencing an identifier that is not an object (noobj.pdf).            *)

TestPdfObjects ==
    (1 :> PagesObj(<<>>, <<>>, 0)) @@ (2 :> CatalogObj(1))

InfoPdf ==
    [objects |-> TestPdfObjects @@
        (3 :> InfoDict(<<StringEntry(<<84>>, <<254, 255, 32, 19, 216, 61, 222, 0>>),
                         StringEntry(<<65>>, <<77, 233>>),
                         IntegerEntry(<<78>>),
                         StringEntry(<<255>>, <<49>>),
                         StringEntry(<<254>>, <<254, 255, 216, 61, 0>>)>>)),
     max_id |-> 3, Root |-> 2, Info |-> InfoRef(3)]

DirectInfoPdf ==
    [objects |-> TestPdfObjects, max_id |-> 2, Root |-> 2, Info |-> InfoDirect]

BadRefInfoPdf ==
    [objects |-> TestPdfObjects @@ (3 :> OtherObj("Array", <<>>)),
     max_id |-> 3, Root |-> 2, Info |-> InfoRef(3)]

NoObjectInfoPdf ==
    [objects |-> TestPdfObjects, max_id |-> 2, Root |-> 2, Info |-> InfoRef(7)]

Paths == {"a.pdf", "b.pdf", "c.pdf", "d.pdf", "x.txt", "missing.pdf"}

ParsePaths == Paths \cup {"info.pdf", "direct.pdf", "badref.pdf", "noobj.pdf"}

(* Path::exists / Path::is_file of an input path *)
Exists(path) == path # "missing.pdf"

(* Document::load: Ok for the PDF files, an error for x.txt (not a PDF)   *)
(* and for missing.pdf                                                     *)
Loads(path) == path \in ParsePaths \ {"x.txt", "missing.pdf"}

Load(path) ==
    CASE path = "a.pdf" -> MinimalPdf
      [] path = "b.pdf" -> NestedPdf
      [] path = "c.pdf" -> DanglingPdf
      [] path = "d.pdf" -> ManyDanglingPdf
      [] path = "info.pdf" -> InfoPdf
      [] path = "direct.pdf" -> DirectInfoPdf
      [] path = "badref.pdf" -> BadRefInfoPdf
      [] path = "noobj.pdf" -> NoObjectInfoPdf
      [] OTHER -> EmptyDoc

----------------------------------------------------------------------------
(* Document::get_pages: the page leaves in document order, found by a      *)
(* depth-first walk of Kids from the catalog's Pages node.                 *)

PAGE_TREE_DEPTH_LIMIT == 256

RECURSIVE PagesUnder(_, _, _)
PagesUnder(d, kids, depth) ==
    IF kids = <<>> THEN <<>>
    ELSE LET kid == Head(kids)
             here == IF ~HasObject(d, kid) THEN <<>>
                     ELSE IF d.objects[kid].Type = "Page" THEN <<kid>>
                     ELSE IF d.objects[kid].Type = "Pages" /\ depth < PAGE_TREE_DEPTH_LIMIT
                          THEN PagesUnder(d, d.objects[kid].Kids, depth + 1)
                     ELSE <<>>
         IN here \o PagesUnder(d, Tail(kids), depth)

(* catalog().get("Pages").as_reference() *)
RootPagesId(d) ==
    IF HasObject(d, d.Root) /\ d.objects[d.Root].Pages # <<>>
    THEN d.objects[d.Root].Pages[1] ELSE 0

(* the sequence whose p-th element is the identifier of page number p *)
GetPages(d) ==
    IF HasObject(d, RootPagesId(d))
    THEN PagesUnder(d, d.objects[RootPagesId(d)].Kids, 0)
    ELSE <<>>

----------------------------------------------------------------------------
(* Reference collection and rewriting *)

RefsOf(o) == o.Parent \o o.Kids \o o.Contents \o o.Resources \o o.Pages \o o.Refs

FindReferencesQueueingSeen(refs, queue, processed) ==
    [queue |-> queue \o refs, processed |-> processed \cup Range(refs)]

FindReferencesOfNothing(refs, queue, processed) ==
    [queue |-> queue, processed |-> processed]

(* find_references_recursive over the references of one object, in order:  *)
(* an identifier not yet in processed is added to it and queued            *)
RECURSIVE FindReferences(_, _, _)
FindReferences(refs, queue, processed) ==
    IF refs = <<>> THEN [queue |-> queue, processed |-> processed]
    ELSE IF Head(refs) \in processed
         THEN FindReferences(Tail(refs), queue, processed)
         ELSE FindReferences(Tail(refs), Append(queue, Head(refs)),
                             processed \cup {Head(refs)})

UpdateRefNotWritten(id, id_map) == id

UpdateRefMappedAgain(id, id_map) ==
    IF id \notin DOMAIN id_map THEN id
    ELSE IF id_map[id] \in DOMAIN id_map THEN id_map[id_map[id]]
    ELSE id_map[id]

(* the Reference arm: replaced by the mapped identifier when it is a key *)
UpdateRef(id, id_map) == IF id \in DOMAIN id_map THEN id_map[id] ELSE id

MapRefs(s, id_map) == [i \in DOMAIN s |-> UpdateRef(s[i], id_map)]

(* update_references_recursive on one object *)
UpdateReferences(o, id_map) ==
    [o EXCEPT !.Parent = MapRefs(@, id_map), !.Kids = MapRefs(@, id_map),
              !.Contents = MapRefs(@, id_map), !.Resources = MapRefs(@, id_map),
              !.Pages = MapRefs(@, id_map), !.Refs = MapRefs(@, id_map)]

UpdateReferencesMergeParentMapped(o, id_map, target_pages_id) ==
    UpdateReferences(o, id_map)

(* update_references_recursive_merge: a Page dictionary gets its Parent    *)
(* forced to target_pages_id and that entry is not rewritten               *)
UpdateReferencesMerge(o, id_map, target_pages_id) ==
    IF o.Type = "Page"
    THEN [UpdateReferences(o, id_map) EXCEPT !.Parent = <<target_pages_id>>]
    ELSE UpdateReferences(o, id_map)

----------------------------------------------------------------------------
(* State.  op/args: the command invoked and its arguments; pc: the step    *)
(* the command is at; fs: the output directory and the output file, fs0    *)
(* their state before the call; log: the directory creations, loads and    *)
(* writes performed so far; result: what the command returned; doc and     *)
(* new_doc: the documents the command holds; cp: the locals of the copy    *)
(* loop; loc: the locals of the command (metadata: the map parse_pdf       *)
(* returns).                                                               *)

NoArgs == [path |-> "", paths |-> <<>>, page_number |-> 0, pages |-> <<>>, rotation |-> 0,
           cmd |-> ""]

NoFile == [present |-> FALSE, doc |-> EmptyDoc, bytesOf |-> ""]

NoCopy == [id_map |-> <<>>, queue |-> <<>>, processed |-> {}, loop_count |-> 0,
           max_loops |-> 0]

NoLocals == [page_ids_to_copy |-> <<>>, new_pages_id |-> 0, new_catalog_id |-> 0,
             target_pages_id |-> 0, current_max_id |-> 0, id_offset |-> 0,
             source_max_id |-> 0, new_kids_data |-> <<>>, idx |-> 0,
             metadata |-> <<>>]

Init ==
    /\ op = "none"
    /\ pc = "idle"
    /\ args = NoArgs
    /\ fs \in {[dirExists |-> FALSE, outFile |-> NoFile],
               [dirExists |-> TRUE, outFile |-> NoFile],
               [dirExists |-> TRUE,
                outFile |-> [present |-> TRUE, doc |-> DanglingPdf, bytesOf |-> "c.pdf"]]}
    /\ fs0 = fs
    /\ log = <<>>
    /\ result = "none"
    /\ doc = EmptyDoc
    /\ new_doc = EmptyDoc
    /\ cp = NoCopy
    /\ loc = NoLocals

(* an early return Err(..): nothing else changes *)
Fail(err) ==
    /\ pc' = "done"
    /\ result' = err
    /\ UNCHANGED <<op, args, fs, fs0, log, doc, new_doc, cp, loc>>

(* the commands of the pdf module: its re-exported functions *)
Orchestrators ==
    {"extract_pdf_page", "merge_pdfs", "split_pdf", "rotate_pdf", "delete_pages"}

Commands == Orchestrators \cup {"parse_pdf"}

(* the commands listed in generate_handler! *)
Registered ==
    {"parse_pdf", "merge_pdfs", "split_pdf", "extract_pdf_page",
     "open_file_dialog", "save_file_dialog", "get_os_type", "shell_open"}

(* the shell invokes a command by name *)
Invoke ==
    /\ pc = "idle"
    /\ \E cmd \in Commands : args' = [NoArgs EXCEPT !.cmd = cmd]
    /\ op' = "invoke"
    /\ pc' = "dispatch"
    /\ UNCHANGED <<fs, fs0, log, result, doc, new_doc, cp, loc>>

(* the invoke handler: a listed command is passed on to its function, any *)
(* other name is rejected                                                  *)
Dispatch ==
    /\ pc = "dispatch"
    /\ IF args.cmd \in Registered
       THEN /\ pc' = "handler"
            /\ UNCHANGED <<op, args, fs, fs0, log, result, doc, new_doc, cp, loc>>
       ELSE Fail("ErrCommandNotFound")

(* the function cmd is entered, called directly or by the dispatcher *)
Entered(cmd) == pc = "idle" \/ (pc = "handler" /\ args.cmd = cmd)

CreateOutputDirAndFile(next) ==
    /\ fs' = [fs EXCEPT !.dirExists = TRUE,
                        !.outFile = [present |-> TRUE, doc |-> EmptyDoc, bytesOf |-> ""]]
    /\ log' = (IF fs.dirExists THEN log ELSE Append(log, "mkdir")) \o <<"write">>
    /\ pc' = next
    /\ UNCHANGED <<op, args, fs0, result, doc, new_doc, cp, loc>>

(* fs::create_dir_all(parent_dir) when the directory does not exist *)
CreateOutputDir(next) ==
    /\ fs' = [fs EXCEPT !.dirExists = TRUE]
    /\ log' = IF fs.dirExists THEN log ELSE Append(log, "mkdir")
    /\ pc' = next
    /\ UNCHANGED <<op, args, fs0, result, doc, new_doc, cp, loc>>

(* Document::load(path) into doc, or the decode error *)
LoadInput(path, next) ==
    /\ log' = Append(log, "load")
    /\ IF Loads(path)
       THEN /\ doc' = Load(path)
            /\ pc' = next
            /\ UNCHANGED result
       ELSE /\ pc' = "done"
            /\ result' = "ErrLoad"
            /\ UNCHANGED doc
    /\ UNCHANGED <<op, args, fs, fs0, new_doc, cp, loc>>

(* d.save(output_path), the last statement before Ok(()) *)
SaveOutput(d) ==
    /\ fs' = [fs EXCEPT !.outFile = [present |-> TRUE, doc |-> d, bytesOf |-> ""]]
    /\ log' = Append(log, "write")
    /\ pc' = "done"
    /\ result' = "ok"
    /\ UNCHANGED <<op, args, fs0, doc, new_doc, cp, loc>>

PageNumbers == 0..MaxPageNum

----------------------------------------------------------------------------
(* manual_deep_copy(source_doc = doc, target_doc = new_doc, ids_to_copy)   *)

DeepCopyInitCapOfSourceOnly(source, ids_to_copy) ==
    [id_map |-> <<>>, queue |-> ids_to_copy, processed |-> Range(ids_to_copy),
     loop_count |-> 0,
     max_loops |-> Cardinality(DOMAIN source.objects) * 2]

DeepCopyInit(source, ids_to_copy) ==
    [id_map |-> <<>>, queue |-> ids_to_copy, processed |-> Range(ids_to_copy),
     loop_count |-> 0,
     max_loops |-> (Cardinality(DOMAIN source.objects) + Len(ids_to_copy)) * 2]

DeepCopyStepCloningAgain ==
    /\ pc = "deep_copy"
    /\ cp.queue # <<>>
    /\ LET old_id == Head(cp.queue)
           popped == [cp EXCEPT !.queue = Tail(@), !.loop_count = @ + 1]
       IN IF popped.loop_count > cp.max_loops
          THEN /\ pc' = "done"
               /\ result' = "ErrDeepCopy"
               /\ cp' = popped
               /\ UNCHANGED new_doc
          ELSE IF ~HasObject(doc, old_id)
          THEN /\ cp' = popped
               /\ UNCHANGED <<pc, result, new_doc>>
          ELSE LET found == FindReferences(RefsOf(doc.objects[old_id]),
                                           popped.queue, popped.processed)
                   target == AddObject(new_doc, doc.objects[old_id])
               IN /\ new_doc' = target
                  /\ cp' = [popped EXCEPT !.queue = found.queue,
                                          !.processed = found.processed,
                                          !.id_map = (old_id :> target.max_id) @@ @]
                  /\ UNCHANGED <<pc, result>>
    /\ UNCHANGED <<op, args, fs, fs0, log, doc, loc>>

(* one iteration of the first pass: pop, count, skip or clone *)
DeepCopyStep ==
    /\ pc = "deep_copy"
    /\ cp.queue # <<>>
    /\ LET old_id == Head(cp.queue)
           popped == [cp EXCEPT !.queue = Tail(@), !.loop_count = @ + 1]
       IN IF popped.loop_count > cp.max_loops
          THEN /\ pc' = "done"
               /\ result' = "ErrDeepCopy"
               /\ cp' = popped
               /\ UNCHANGED new_doc
          ELSE IF old_id \in DOMAIN cp.id_map \/ ~HasObject(doc, old_id)
          THEN /\ cp' = popped
               /\ UNCHANGED <<pc, result, new_doc>>
          ELSE LET found == FindReferences(RefsOf(doc.objects[old_id]),
                                           popped.queue, popped.processed)
                   target == AddObject(new_doc, doc.objects[old_id])
               IN /\ new_doc' = target
                  /\ cp' = [popped EXCEPT !.queue = found.queue,
                                          !.processed = found.processed,
                                          !.id_map = (old_id :> target.max_id) @@ @]
                  /\ UNCHANGED <<pc, result>>
    /\ UNCHANGED <<op, args, fs, fs0, log, doc, loc>>

(* the second pass, over the copied objects only; Ok(id_map) *)
DeepCopyUpdate ==
    /\ pc = "deep_copy"
    /\ cp.queue = <<>>
    /\ LET new_ids == {cp.id_map[k] : k \in DOMAIN cp.id_map}
       IN IF new_ids \subseteq DOMAIN new_doc.objects
          THEN /\ new_doc' = [new_doc EXCEPT !.objects =
                     [id \in DOMAIN @ |->
                        IF id \in new_ids THEN UpdateReferences(@[id], cp.id_map)
                        ELSE @[id]]]
               /\ pc' = IF op = "extract" THEN "extract_assemble" ELSE "split_assemble"
               /\ UNCHANGED result
          ELSE /\ pc' = "done"
               /\ result' = "ErrDeepCopy"
               /\ UNCHANGED new_doc
    /\ UNCHANGED <<op, args, fs, fs0, log, doc, cp, loc>>

----------------------------------------------------------------------------
(* extract_pdf_page(path, page_number, output_path) *)

CallExtract ==
    /\ Entered("extract_pdf_page")
    /\ \E path \in Paths, n \in PageNumbers :
          args' = [NoArgs EXCEPT !.path = path, !.page_number = n]
    /\ op' = "extract"
    /\ pc' = "extract_validate"
    /\ UNCHANGED <<fs, fs0, log, result, doc, new_doc, cp, loc>>

ExtractValidate ==
    /\ pc = "extract_validate"
    /\ IF args.page_number = 0 THEN Fail("ErrPageZero")
       ELSE IF ~Exists(args.path) THEN Fail("ErrInputNotFound")
       ELSE /\ pc' = "extract_mkdir"
            /\ UNCHANGED <<op, args, fs, fs0, log, result, doc, new_doc, cp, loc>>

ExtractCreateDir == pc = "extract_mkdir" /\ CreateOutputDir("extract_load")

ExtractLoad == pc = "extract_load" /\ LoadInput(args.path, "extract_find")

(* the page lookup, the new document with its two reserved identifiers,    *)
(* and the entry into manual_deep_copy                                     *)
ExtractFindPage ==
    /\ pc = "extract_find"
    /\ LET source_pages_map == GetPages(doc)
       IN IF args.page_number \notin DOMAIN source_pages_map
          THEN Fail("ErrPageNotFound")
          ELSE LET target_page_id == source_pages_map[args.page_number]
                   fresh == NewObjectId(NewObjectId(EmptyDoc))
               IN /\ new_doc' = fresh
                  /\ loc' = [loc EXCEPT !.page_ids_to_copy = <<target_page_id>>,
                                        !.new_pages_id = fresh.max_id - 1,
                                        !.new_catalog_id = fresh.max_id]
                  /\ cp' = DeepCopyInit(doc, <<target_page_id>>)
                  /\ pc' = "deep_copy"
                  /\ UNCHANGED <<op, args, fs, fs0, log, result, doc>>

(* new page id, Parent patch, Pages node, Catalog, trailer Root *)
ExtractAssemble ==
    /\ pc = "extract_assemble"
    /\ LET target_page_id == loc.page_ids_to_copy[1]
       IN IF target_page_id \notin DOMAIN cp.id_map
          THEN Fail("ErrInternal")
          ELSE LET new_page_id == cp.id_map[target_page_id]
                   patched == [new_doc EXCEPT
                       !.objects[new_page_id].Parent = <<loc.new_pages_id>>]
                   withPages == InsertObject(patched, loc.new_pages_id,
                       PagesObj(<<>>, <<new_page_id>>, 1))
                   withCatalog == InsertObject(withPages, loc.new_catalog_id,
                       CatalogObj(loc.new_pages_id))
               IN /\ new_doc' = [withCatalog EXCEPT !.Root = loc.new_catalog_id]
                  /\ pc' = "extract_save"
                  /\ UNCHANGED <<op, args, fs, fs0, log, result, doc, cp, loc>>

ExtractSave == pc = "extract_save" /\ SaveOutput(new_doc)

----------------------------------------------------------------------------
(* split_pdf(path, pages, output_path) *)

RECURSIVE SeqsUpTo(_, _)
SeqsUpTo(S, n) ==
    IF n = 0 THEN {<<>>}
    ELSE LET shorter == SeqsUpTo(S, n - 1)
         IN shorter \cup {Append(q, x) : q \in shorter, x \in S}

PageLists == SeqsUpTo(PageNumbers, MaxListLen)

CallSplit ==
    /\ Entered("split_pdf")
    /\ \E path \in Paths, pages \in PageLists :
          args' = [NoArgs EXCEPT !.path = path, !.pages = pages]
    /\ op' = "split"
    /\ pc' = "split_validate"
    /\ UNCHANGED <<fs, fs0, log, result, doc, new_doc, cp, loc>>

SplitValidate ==
    /\ pc = "split_validate"
    /\ IF args.pages = <<>> THEN Fail("ErrEmptyList")
       ELSE IF ~Exists(args.path) THEN Fail("ErrInputNotFound")
       ELSE /\ pc' = "split_load"
            /\ UNCHANGED <<op, args, fs, fs0, log, result, doc, new_doc, cp, loc>>

SplitLoad == pc = "split_load" /\ LoadInput(args.path, "split_find")

(* the new document with its two reserved identifiers, then the loop that  *)
(* resolves each requested number and returns at the first bad one         *)
SplitFindPages ==
    /\ pc = "split_find"
    /\ LET source_pages_map == GetPages(doc)
           bad == {i \in DOMAIN args.pages :
                      args.pages[i] = 0 \/ args.pages[i] \notin DOMAIN source_pages_map}
           fresh == NewObjectId(NewObjectId(EmptyDoc))
       IN IF bad # {}
          THEN LET first == CHOOSE i \in bad : \A j \in bad : i <= j
               IN IF args.pages[first] = 0 THEN Fail("ErrPageZero")
                  ELSE Fail("ErrPageNotFound")
          ELSE /\ new_doc' = fresh
               /\ loc' = [loc EXCEPT
                     !.page_ids_to_copy =
                         [i \in DOMAIN args.pages |-> source_pages_map[args.pages[i]]],
                     !.new_pages_id = fresh.max_id - 1,
                     !.new_catalog_id = fresh.max_id]
               /\ pc' = "split_mkdir"
               /\ UNCHANGED <<op, args, fs, fs0, log, result, doc, cp>>

SplitCreateDir == pc = "split_mkdir" /\ CreateOutputDir("split_copy")

SplitCopyPages ==
    /\ pc = "split_copy"
    /\ cp' = DeepCopyInit(doc, loc.page_ids_to_copy)
    /\ pc' = "deep_copy"
    /\ UNCHANGED <<op, args, fs, fs0, log, result, doc, new_doc, loc>>

(* the identifiers of a sequence, each kept at its first occurrence *)
RECURSIVE Dedup(_, _)
Dedup(s, seen) ==
    IF s = <<>> THEN <<>>
    ELSE IF Head(s) \in seen THEN Dedup(Tail(s), seen)
    ELSE <<Head(s)>> \o Dedup(Tail(s), seen \cup {Head(s)})

NewKidsOncePerPage(page_ids_to_copy, id_map) ==
    [i \in DOMAIN Dedup(page_ids_to_copy, {}) |-> id_map[Dedup(page_ids_to_copy, {})[i]]]

(* new_kids: one reference per requested page, in request order *)
NewKids(page_ids_to_copy, id_map) ==
    [i \in DOMAIN page_ids_to_copy |-> id_map[page_ids_to_copy[i]]]

(* the Kids array in request order, each page's Parent, the Pages node,    *)
(* the Catalog and the trailer Root                                        *)
SplitAssemble ==
    /\ pc = "split_assemble"
    /\ IF \E i \in DOMAIN loc.page_ids_to_copy :
             loc.page_ids_to_copy[i] \notin DOMAIN cp.id_map
       THEN Fail("ErrInternal")
       ELSE LET new_kids == NewKids(loc.page_ids_to_copy, cp.id_map)
                patched == [new_doc EXCEPT !.objects =
                    [id \in DOMAIN @ |->
                        IF id \in Range(new_kids)
                        THEN [@[id] EXCEPT !.Parent = <<loc.new_pages_id>>]
                        ELSE @[id]]]
                withPages == InsertObject(patched, loc.new_pages_id,
                    PagesObj(<<>>, new_kids, Len(args.pages)))
                withCatalog == InsertObject(withPages, loc.new_catalog_id,
                    CatalogObj(loc.new_pages_id))
            IN /\ new_doc' = [withCatalog EXCEPT !.Root = loc.new_catalog_id]
               /\ pc' = "split_save"
               /\ UNCHANGED <<op, args, fs, fs0, log, result, doc, cp, loc>>

SplitSave == pc = "split_save" /\ SaveOutput(new_doc)

----------------------------------------------------------------------------
(* merge_pdfs(paths, output_path) *)

PathLists == SeqsUpTo(Paths, MaxPaths)

CallMerge ==
    /\ Entered("merge_pdfs")
    /\ \E paths \in PathLists : args' = [NoArgs EXCEPT !.paths = paths]
    /\ op' = "merge"
    /\ pc' = "merge_validate"
    /\ UNCHANGED <<fs, fs0, log, result, doc, new_doc, cp, loc>>

MergeValidate ==
    /\ pc = "merge_validate"
    /\ IF args.paths = <<>> THEN Fail("ErrNoInputs")
       ELSE IF \E i \in DOMAIN args.paths : ~Exists(args.paths[i])
       THEN Fail("ErrInputNotFound")
       ELSE /\ pc' = IF Len(args.paths) = 1 THEN "merge_single_mkdir" ELSE "merge_mkdir"
            /\ UNCHANGED <<op, args, fs, fs0, log, result, doc, new_doc, cp, loc>>

MergeSingleCreateDir == pc = "merge_single_mkdir" /\ CreateOutputDir("merge_single_copy")

MergeSingleLoadAndSave ==
    /\ pc = "merge_single_copy"
    /\ IF Loads(args.paths[1])
       THEN /\ fs' = [fs EXCEPT !.outFile =
                        [present |-> TRUE, doc |-> Load(args.paths[1]), bytesOf |-> ""]]
            /\ log' = log \o <<"load", "write">>
            /\ result' = "ok"
       ELSE /\ log' = Append(log, "load")
            /\ result' = "ErrLoad"
            /\ UNCHANGED fs
    /\ pc' = "done"
    /\ UNCHANGED <<op, args, fs0, doc, new_doc, cp, loc>>

(* fs::copy(source_path, output_path): the bytes of the input, unread *)
MergeSingleCopy ==
    /\ pc = "merge_single_copy"
    /\ fs' = [fs EXCEPT !.outFile =
                 [present |-> TRUE, doc |-> Load(args.paths[1]), bytesOf |-> args.paths[1]]]
    /\ log' = Append(log, "write")
    /\ pc' = "done"
    /\ result' = "ok"
    /\ UNCHANGED <<op, args, fs0, doc, new_doc, cp, loc>>

MergeCreateDir == pc = "merge_mkdir" /\ CreateOutputDir("merge_load_first")

(* the first document becomes the target; its root Pages identifier *)
MergeLoadFirst ==
    /\ pc = "merge_load_first"
    /\ log' = Append(log, "load")
    /\ IF ~Loads(args.paths[1])
       THEN /\ pc' = "done"
            /\ result' = "ErrLoad"
            /\ UNCHANGED <<new_doc, loc>>
       ELSE LET target_doc == Load(args.paths[1])
            IN IF RootPagesId(target_doc) = 0
               THEN /\ pc' = "done"
                    /\ result' = "ErrCatalog"
                    /\ UNCHANGED <<new_doc, loc>>
               ELSE /\ new_doc' = target_doc
                    /\ loc' = [loc EXCEPT !.target_pages_id = RootPagesId(target_doc),
                                          !.current_max_id = target_doc.max_id,
                                          !.new_kids_data = <<>>,
                                          !.idx = 2]
                    /\ pc' = "merge_loop"
                    /\ UNCHANGED result
    /\ UNCHANGED <<op, args, fs, fs0, doc, cp>>

(* the locals of merge_and_shift_objects: the queue starts with the pages *)
MergeCopyInit(source) ==
    [id_map |-> <<>>, queue |-> Dedup(GetPages(source), {}),
     processed |-> Range(GetPages(source)), loop_count |-> 0,
     max_loops |-> Cardinality(DOMAIN source.objects) * 2 + 10]

(* the next input is loaded and merge_and_shift_objects is entered *)
MergeLoadNext ==
    /\ pc = "merge_loop"
    /\ loc.idx <= Len(args.paths)
    /\ log' = Append(log, "load")
    /\ IF ~Loads(args.paths[loc.idx])
       THEN /\ pc' = "done"
            /\ result' = "ErrLoad"
            /\ UNCHANGED <<doc, loc, cp>>
       ELSE LET source_doc == Load(args.paths[loc.idx])
            IN /\ doc' = source_doc
               /\ loc' = [loc EXCEPT !.id_offset = loc.current_max_id,
                                     !.source_max_id = source_doc.max_id]
               /\ cp' = MergeCopyInit(source_doc)
               /\ pc' = "merge_copy"
               /\ UNCHANGED result
    /\ UNCHANGED <<op, args, fs, fs0, new_doc>>

(* the identifier an object of the source gets in the target; the object  *)
(* numbers of the documents here and their sums are far inside the u32    *)
(* range, so the addition does not overflow                                *)
ShiftIdKeepingSourceNumber(old_id, id_offset) == old_id

ShiftId(old_id, id_offset) == old_id + id_offset

(* one iteration of pass 1 of merge_and_shift_objects *)
MergeCopyStep ==
    /\ pc = "merge_copy"
    /\ cp.queue # <<>>
    /\ LET old_id == Head(cp.queue)
           popped == [cp EXCEPT !.queue = Tail(@), !.loop_count = @ + 1]
       IN IF popped.loop_count > cp.max_loops
          THEN /\ pc' = "done"
               /\ result' = "ErrDeepCopy"
               /\ cp' = popped
               /\ UNCHANGED new_doc
          ELSE IF old_id \in DOMAIN cp.id_map \/ ~HasObject(doc, old_id)
          THEN /\ cp' = popped
               /\ UNCHANGED <<pc, result, new_doc>>
          ELSE LET found == FindReferences(RefsOf(doc.objects[old_id]),
                                           popped.queue, popped.processed)
                   new_id == ShiftId(old_id, loc.id_offset)
               IN /\ new_doc' = InsertObject(new_doc, new_id, doc.objects[old_id])
                  /\ cp' = [popped EXCEPT !.queue = found.queue,
                                          !.processed = found.processed,
                                          !.id_map = (old_id :> new_id) @@ @]
                  /\ UNCHANGED <<pc, result>>
    /\ UNCHANGED <<op, args, fs, fs0, log, doc, loc>>

(* pass 2 of merge_and_shift_objects; Ok(id_map) *)
MergeCopyUpdate ==
    /\ pc = "merge_copy"
    /\ cp.queue = <<>>
    /\ LET new_ids == {cp.id_map[k] : k \in DOMAIN cp.id_map}
       IN /\ new_doc' = [new_doc EXCEPT !.objects =
                [id \in DOMAIN @ |->
                    IF id \in new_ids
                    THEN UpdateReferencesMerge(@[id], cp.id_map, loc.target_pages_id)
                    ELSE @[id]]]
          /\ pc' = "merge_collect"
    /\ UNCHANGED <<op, args, fs, fs0, log, result, doc, cp, loc>>

MergeCollectNewestFirst ==
    /\ pc = "merge_collect"
    /\ LET source_pages == GetPages(doc)
       IN IF \E i \in DOMAIN source_pages : source_pages[i] \notin DOMAIN cp.id_map
          THEN Fail("ErrInternal")
          ELSE /\ loc' = [loc EXCEPT
                     !.current_max_id = @ + loc.source_max_id,
                     !.new_kids_data = [i \in DOMAIN source_pages |->
                                           cp.id_map[source_pages[i]]] \o @,
                     !.idx = @ + 1]
               /\ pc' = "merge_loop"
               /\ UNCHANGED <<op, args, fs, fs0, log, result, doc, new_doc, cp>>

MergeCollectOffsetNotAdvanced ==
    /\ pc = "merge_collect"
    /\ LET source_pages == GetPages(doc)
       IN IF \E i \in DOMAIN source_pages : source_pages[i] \notin DOMAIN cp.id_map
          THEN Fail("ErrInternal")
          ELSE /\ loc' = [loc EXCEPT
                     !.new_kids_data = @ \o [i \in DOMAIN source_pages |->
                                                cp.id_map[source_pages[i]]],
                     !.idx = @ + 1]
               /\ pc' = "merge_loop"
               /\ UNCHANGED <<op, args, fs, fs0, log, result, doc, new_doc, cp>>

(* back in merge_pdfs: the running maximum and the new Kids entries *)
MergeCollect ==
    /\ pc = "merge_collect"
    /\ LET source_pages == GetPages(doc)
       IN IF \E i \in DOMAIN source_pages : source_pages[i] \notin DOMAIN cp.id_map
          THEN Fail("ErrInternal")
          ELSE /\ loc' = [loc EXCEPT
                     !.current_max_id = @ + loc.source_max_id,
                     !.new_kids_data = @ \o [i \in DOMAIN source_pages |->
                                                cp.id_map[source_pages[i]]],
                     !.idx = @ + 1]
               /\ pc' = "merge_loop"
               /\ UNCHANGED <<op, args, fs, fs0, log, result, doc, new_doc, cp>>

MergeFinalizeMaxIdOfFirst ==
    /\ pc = "merge_loop"
    /\ loc.idx > Len(args.paths)
    /\ IF ~HasObject(new_doc, loc.target_pages_id)
       THEN Fail("ErrPagesObject")
       ELSE LET kids_array == new_doc.objects[loc.target_pages_id].Kids \o loc.new_kids_data
            IN /\ new_doc' = [new_doc EXCEPT
                     !.objects[loc.target_pages_id].Kids = kids_array,
                     !.objects[loc.target_pages_id].Count = Len(kids_array)]
               /\ pc' = "merge_save"
               /\ UNCHANGED <<op, args, fs, fs0, log, result, doc, cp, loc>>

(* max_id, the extended Kids array and Count = its length *)
MergeFinalize ==
    /\ pc = "merge_loop"
    /\ loc.idx > Len(args.paths)
    /\ IF ~HasObject(new_doc, loc.target_pages_id)
       THEN Fail("ErrPagesObject")
       ELSE LET kids_array == new_doc.objects[loc.target_pages_id].Kids \o loc.new_kids_data
            IN /\ new_doc' = [new_doc EXCEPT
                     !.max_id = loc.current_max_id,
                     !.objects[loc.target_pages_id].Kids = kids_array,
                     !.objects[loc.target_pages_id].Count = Len(kids_array)]
               /\ pc' = "merge_save"
               /\ UNCHANGED <<op, args, fs, fs0, log, result, doc, cp, loc>>

MergeSave == pc = "merge_save" /\ SaveOutput(new_doc)

----------------------------------------------------------------------------
(* delete_pages(path, pages_to_delete, output_path) *)

RECURSIVE RemoveFirst(_, _)
RemoveFirst(s, id) ==
    IF s = <<>> THEN <<>>
    ELSE IF Head(s) = id THEN Tail(s)
    ELSE <<Head(s)>> \o RemoveFirst(Tail(s), id)

DropKey(s, id) == IF s = <<id>> THEN <<>> ELSE s

(* Document::delete_object: in every object reached from the trailer       *)
(* (every object of the documents here) the first array entry referencing  *)
(* id and each dictionary entry referencing id are removed, then the       *)
(* object itself                                                           *)
DeleteObject(d, id) ==
    [d EXCEPT !.objects =
        [k \in DOMAIN @ \ {id} |->
            [@[k] EXCEPT !.Parent = DropKey(@, id), !.Contents = DropKey(@, id),
                         !.Resources = DropKey(@, id), !.Pages = DropKey(@, id),
                         !.Kids = RemoveFirst(@, id), !.Refs = RemoveFirst(@, id)]]]

(* Count - 1 on the removed page's parent and on each ancestor *)
RECURSIVE DecrementCounts(_, _, _)
DecrementCounts(d, parent, fuel) ==
    IF parent = <<>> \/ fuel = 0 THEN d
    ELSE IF ~HasObject(d, parent[1]) THEN d
    ELSE DecrementCounts([d EXCEPT !.objects[parent[1]].Count = @ - 1],
                         d.objects[parent[1]].Parent, fuel - 1)

RECURSIVE LibDeletePagesRenumbering(_, _, _)
LibDeletePagesRenumbering(d, pages, page_numbers) ==
    IF page_numbers = <<>> THEN d
    ELSE LET n == Head(page_numbers)
             now == GetPages(d)
         IN IF n \in DOMAIN now /\ HasObject(d, now[n])
            THEN LibDeletePagesRenumbering(
                     DecrementCounts(DeleteObject(d, now[n]),
                                     d.objects[now[n]].Parent,
                                     Cardinality(DOMAIN d.objects)),
                     pages, Tail(page_numbers))
            ELSE LibDeletePagesRenumbering(d, pages, Tail(page_numbers))

(* Document::delete_pages: the page numbers refer to the numbering before  *)
(* the call; a number whose object is already gone is skipped              *)
RECURSIVE LibDeletePages(_, _, _)
LibDeletePages(d, pages, page_numbers) ==
    IF page_numbers = <<>> THEN d
    ELSE LET n == Head(page_numbers)
         IN IF n \in DOMAIN pages /\ HasObject(d, pages[n])
            THEN LibDeletePages(
                     DecrementCounts(DeleteObject(d, pages[n]),
                                     d.objects[pages[n]].Parent,
                                     Cardinality(DOMAIN d.objects)),
                     pages, Tail(page_numbers))
            ELSE LibDeletePages(d, pages, Tail(page_numbers))

(* BTreeSet::into_iter().collect(): the distinct numbers in ascending order *)
RECURSIVE SortedSeq(_)
SortedSeq(S) ==
    IF S = {} THEN <<>>
    ELSE LET m == CHOOSE x \in S : \A y \in S : x <= y
         IN <<m>> \o SortedSeq(S \ {m})

CallDelete ==
    /\ Entered("delete_pages")
    /\ \E path \in Paths, pages \in PageLists :
          args' = [NoArgs EXCEPT !.path = path, !.pages = pages]
    /\ op' = "delete"
    /\ pc' = "delete_validate"
    /\ UNCHANGED <<fs, fs0, log, result, doc, new_doc, cp, loc>>

DeleteValidate ==
    /\ pc = "delete_validate"
    /\ IF args.pages = <<>> THEN Fail("ErrEmptyList")
       ELSE IF ~Exists(args.path) THEN Fail("ErrInputNotFound")
       ELSE /\ pc' = "delete_mkdir"
            /\ UNCHANGED <<op, args, fs, fs0, log, result, doc, new_doc, cp, loc>>

DeleteCreateDir == pc = "delete_mkdir" /\ CreateOutputDir("delete_load")

DeleteLoad == pc = "delete_load" /\ LoadInput(args.path, "delete_apply")

InvalidPageNumberZeroOnly(pages, page_count) ==
    \E i \in DOMAIN pages : pages[i] = 0

(* page_num == 0 || page_num > page_count, for some listed number *)
InvalidPageNumber(pages, page_count) ==
    \E i \in DOMAIN pages : pages[i] = 0 \/ pages[i] > page_count

DeleteApplyCheckingWhileDeleting ==
    /\ pc = "delete_apply"
    /\ LET page_count == Len(GetPages(doc))
           valid == {n \in Range(args.pages) : n \in 1..page_count}
       IN /\ doc' = LibDeletePages(doc, GetPages(doc), SortedSeq(valid))
          /\ IF InvalidPageNumber(args.pages, page_count)
             THEN pc' = "done" /\ result' = "ErrInvalidPage"
             ELSE pc' = "delete_save" /\ UNCHANGED result
    /\ UNCHANGED <<op, args, fs, fs0, log, new_doc, cp, loc>>

DeleteApplyListAsGiven ==
    /\ pc = "delete_apply"
    /\ LET page_count == Len(GetPages(doc))
       IN IF InvalidPageNumber(args.pages, page_count)
          THEN Fail("ErrInvalidPage")
          ELSE /\ doc' = LibDeletePagesRenumbering(doc, GetPages(doc), args.pages)
               /\ pc' = "delete_save"
               /\ UNCHANGED <<op, args, fs, fs0, log, result, new_doc, cp, loc>>

(* the range check of every number, then the removal on the loaded doc *)
DeleteApply ==
    /\ pc = "delete_apply"
    /\ LET page_count == Len(GetPages(doc))
       IN IF InvalidPageNumber(args.pages, page_count)
          THEN Fail("ErrInvalidPage")
          ELSE /\ doc' = LibDeletePages(doc, GetPages(doc), SortedSeq(Range(args.pages)))
               /\ pc' = "delete_save"
               /\ UNCHANGED <<op, args, fs, fs0, log, result, new_doc, cp, loc>>

DeleteSave == pc = "delete_save" /\ SaveOutput(doc)

----------------------------------------------------------------------------
(* rotate_pdf(path, pages, rotation, output_path) *)

AllowedAngles == {0, 90, 180, 270, -90, -180, -270}

Angles == AllowedAngles \cup {45}

(* Rust's %: the remainder takes the sign of the dividend *)
RustRem(a, m) == IF a >= 0 THEN a % m ELSE -((-a) % m)

(* (current_rotation + rotation) % 360, absent Rotate read as 0; the       *)
(* stored values of the documents here are far inside the i32 range, so    *)
(* neither the `as i32` cast nor the addition overflows                    *)
NewRotation(rotate, rotation) ==
    LET current_rotation == IF rotate = <<>> THEN 0 ELSE rotate[1]
    IN RustRem(current_rotation + rotation, 360)

RotatePagesOfWholeDocument(d, page_ids, rotation) ==
    [d EXCEPT !.objects =
        [id \in DOMAIN @ |->
            IF @[id].Type = "Page"
            THEN [@[id] EXCEPT !.Rotate = <<NewRotation(@, rotation)>>]
            ELSE @[id]]]

(* the loop over pages_to_rotate, one set("Rotate", ..) per entry *)
RECURSIVE RotatePages(_, _, _)
RotatePages(d, page_ids, rotation) ==
    IF page_ids = <<>> THEN d
    ELSE RotatePages(
             [d EXCEPT !.objects[Head(page_ids)].Rotate =
                           <<NewRotation(@, rotation)>>],
             Tail(page_ids), rotation)

CallRotate ==
    /\ Entered("rotate_pdf")
    /\ \E path \in Paths, pages \in PageLists, rotation \in Angles :
          args' = [NoArgs EXCEPT !.path = path, !.pages = pages, !.rotation = rotation]
    /\ op' = "rotate"
    /\ pc' = "rotate_validate"
    /\ UNCHANGED <<fs, fs0, log, result, doc, new_doc, cp, loc>>

RotateValidate ==
    /\ pc = "rotate_validate"
    /\ IF args.rotation \notin AllowedAngles THEN Fail("ErrInvalidAngle")
       ELSE IF ~Exists(args.path) THEN Fail("ErrInputNotFound")
       ELSE /\ pc' = "rotate_mkdir"
            /\ UNCHANGED <<op, args, fs, fs0, log, result, doc, new_doc, cp, loc>>

RotateCreateDir == pc = "rotate_mkdir" /\ CreateOutputDir("rotate_load")

RotateLoad == pc = "rotate_load" /\ LoadInput(args.path, "rotate_apply")

(* the pages to rotate (all when the list is empty), then the loop *)
RotateApply ==
    /\ pc = "rotate_apply"
    /\ LET page_ids == GetPages(doc)
       IN IF \E i \in DOMAIN args.pages : args.pages[i] \notin DOMAIN page_ids
          THEN Fail("ErrPageNotFound")
          ELSE LET pages_to_rotate ==
                       IF args.pages = <<>> THEN page_ids
                       ELSE [i \in DOMAIN args.pages |-> page_ids[args.pages[i]]]
               IN /\ doc' = RotatePages(doc, pages_to_rotate, args.rotation)
                  /\ pc' = "rotate_save"
                  /\ UNCHANGED <<op, args, fs, fs0, log, result, new_doc, cp, loc>>

RotateSave == pc = "rotate_save" /\ SaveOutput(doc)

----------------------------------------------------------------------------
(* parse_pdf(path) *)

REPLACEMENT_CHARACTER == 65533

(* String::from_utf8_lossy of a key: an ASCII byte is its character; the   *)
(* other bytes of the keys here (F8..FF) occur in no UTF-8 sequence and    *)
(* are each replaced by U+FFFD                                             *)
Utf8Lossy(key_bytes) ==
    [i \in DOMAIN key_bytes |->
        IF key_bytes[i] < 128 THEN key_bytes[i] ELSE REPLACEMENT_CHARACTER]

(* decode_pdfdoc_encoding: every byte is the character of that code *)
DecodePdfDocEncoding(bytes) == [i \in DOMAIN bytes |-> bytes[i]]

(* chunks_exact(2) + u16::from_be_bytes: a trailing odd byte is dropped *)
RECURSIVE Utf16Units(_)
Utf16Units(bytes) ==
    IF Len(bytes) < 2 THEN <<>>
    ELSE <<bytes[1] * 256 + bytes[2]>> \o Utf16Units(SubSeq(bytes, 3, Len(bytes)))

IsHighSurrogate(u) == u \in 55296..56319

IsLowSurrogate(u) == u \in 56320..57343

(* String::from_utf16: Err on an unpaired surrogate *)
RECURSIVE ValidUtf16(_)
ValidUtf16(units) ==
    IF units = <<>> THEN TRUE
    ELSE IF IsHighSurrogate(units[1])
         THEN Len(units) >= 2 /\ IsLowSurrogate(units[2])
              /\ ValidUtf16(SubSeq(units, 3, Len(units)))
    ELSE IF IsLowSurrogate(units[1]) THEN FALSE
    ELSE ValidUtf16(Tail(units))

(* the characters of valid UTF-16: a surrogate pair is one character *)
RECURSIVE FromUtf16(_)
FromUtf16(units) ==
    IF units = <<>> THEN <<>>
    ELSE IF IsHighSurrogate(units[1])
         THEN <<65536 + (units[1] - 55296) * 1024 + (units[2] - 56320)>>
              \o FromUtf16(SubSeq(units, 3, Len(units)))
    ELSE <<units[1]>> \o FromUtf16(Tail(units))

(* decode_pdf_string: UTF-16BE after the byte order mark FE FF, and the    *)
(* PDFDocEncoding reading of all the bytes otherwise or when that fails    *)
DecodePdfString(bytes) ==
    IF Len(bytes) >= 2 /\ bytes[1] = 254 /\ bytes[2] = 255
    THEN LET units == Utf16Units(SubSeq(bytes, 3, Len(bytes)))
         IN IF ValidUtf16(units) THEN FromUtf16(units)
            ELSE DecodePdfDocEncoding(bytes)
    ELSE DecodePdfDocEncoding(bytes)

(* the Info dictionary: trailer Info present, a reference, resolving to a  *)
(* dictionary; None otherwise                                              *)
HasInfoDict(d) ==
    /\ d.Info.present
    /\ d.Info.isRef
    /\ HasObject(d, d.Info.id)
    /\ d.objects[d.Info.id].Type = "Dictionary"

KeepsEveryEntry(entry) == TRUE

(* the filter_map: Some for an Object::String value, None otherwise *)
KeepsEntry(entry) == entry.isString

(* collect() into the BTreeMap: a later entry replaces an earlier one      *)
(* under the same key                                                      *)
RECURSIVE CollectMetadata(_, _)
CollectMetadata(entries, map) ==
    IF entries = <<>> THEN map
    ELSE IF KeepsEntry(Head(entries))
         THEN CollectMetadata(Tail(entries),
                  (Utf8Lossy(Head(entries).key) :> DecodePdfString(Head(entries).bytes))
                      @@ map)
    ELSE CollectMetadata(Tail(entries), map)

CallParse ==
    /\ Entered("parse_pdf")
    /\ \E path \in ParsePaths : args' = [NoArgs EXCEPT !.path = path]
    /\ op' = "parse"
    /\ pc' = "parse_load"
    /\ UNCHANGED <<fs, fs0, log, result, doc, new_doc, cp, loc>>

(* the existence checks have empty bodies, so the next step is the load *)
ParseLoad == pc = "parse_load" /\ LoadInput(args.path, "parse_info")

ParseInfo ==
    /\ pc = "parse_info"
    /\ loc' = [loc EXCEPT !.metadata =
                  IF HasInfoDict(doc)
                  THEN CollectMetadata(doc.objects[doc.Info.id].Entries, <<>>)
                  ELSE <<>>]
    /\ pc' = "done"
    /\ result' = "ok"
    /\ UNCHANGED <<op, args, fs, fs0, log, doc, new_doc, cp>>

----------------------------------------------------------------------------

Next ==
    \/ Invoke
    \/ Dispatch
    \/ CallExtract
    \/ ExtractValidate
    \/ ExtractCreateDir
    \/ ExtractLoad
    \/ ExtractFindPage
    \/ DeepCopyStep
    \/ DeepCopyUpdate
    \/ ExtractAssemble
    \/ ExtractSave
    \/ CallSplit
    \/ SplitValidate
    \/ SplitLoad
    \/ SplitFindPages
    \/ SplitCreateDir
    \/ SplitCopyPages
    \/ SplitAssemble
    \/ SplitSave
    \/ CallMerge
    \/ MergeValidate
    \/ MergeSingleCreateDir
    \/ MergeSingleCopy
    \/ MergeCreateDir
    \/ MergeLoadFirst
    \/ MergeLoadNext
    \/ MergeCopyStep
    \/ MergeCopyUpdate
    \/ MergeCollect
    \/ MergeFinalize
    \/ MergeSave
    \/ CallDelete
    \/ DeleteValidate
    \/ DeleteCreateDir
    \/ DeleteLoad
    \/ DeleteApply
    \/ DeleteSave
    \/ CallRotate
    \/ RotateValidate
    \/ RotateCreateDir
    \/ RotateLoad
    \/ RotateApply
    \/ RotateSave
    \/ CallParse
    \/ ParseLoad
    \/ ParseInfo

Spec == Init /\ [][Next]_vars

----------------------------------------------------------------------------
(* Reading a finished call *)

Done == pc = "done"

Out == fs.outFile.doc

Src == Load(args.path)

SrcPages == GetPages(Src)

(* the identifiers reachable from S through references, resolving or not *)
RECURSIVE Reach(_, _)
Reach(d, S) ==
    LET T == S \cup UNION {Range(RefsOf(d.objects[i])) : i \in S \cap DOMAIN d.objects}
    IN IF T = S THEN S ELSE Reach(d, T)

ContentRefs(o) == o.Contents \o o.Resources \o o.Refs

(* position by position, a reference that resolves in the source is the    *)
(* mapped identifier in the output and resolves there                      *)
CopiedRefs(srcRefs, outRefs, m) ==
    /\ Len(srcRefs) = Len(outRefs)
    /\ \A i \in DOMAIN srcRefs :
          HasObject(Src, srcRefs[i]) =>
              /\ srcRefs[i] \in DOMAIN m
              /\ outRefs[i] = m[srcRefs[i]]
              /\ HasObject(Out, outRefs[i])

----------------------------------------------------------------------------
(* C1 *)

ExtractValid ==
    /\ op = "extract"
    /\ Loads(args.path)
    /\ args.page_number \in DOMAIN SrcPages

ExtractPage == SrcPages[args.page_number]

(* the identifiers the copy loop dequeues are at most its iteration cap *)
ExtractWithinCap ==
    Cardinality(Reach(Src, {ExtractPage})) <= 2 * (Cardinality(DOMAIN Src.objects) + 1)

ExtractOnePage ==
    LET m == cp.id_map
        root == RootPagesId(Out)
    IN /\ result = "ok"
       /\ fs.outFile.present
       /\ HasObject(Out, root)
       /\ ExtractPage \in DOMAIN m
       /\ Out.objects[root].Type = "Pages"
       /\ Out.objects[root].Kids = <<m[ExtractPage]>>
       /\ Out.objects[root].Count = 1
       /\ GetPages(Out) = <<m[ExtractPage]>>
       /\ Out.objects[m[ExtractPage]].Type = "Page"
       /\ Out.objects[m[ExtractPage]].Rotate = Src.objects[ExtractPage].Rotate
       /\ CopiedRefs(ContentRefs(Src.objects[ExtractPage]),
                     ContentRefs(Out.objects[m[ExtractPage]]), m)
       /\ \A s \in (Reach(Src, Range(ContentRefs(Src.objects[ExtractPage])))
                      \cap DOMAIN Src.objects) \ {ExtractPage} :
             /\ s \in DOMAIN m
             /\ HasObject(Out, m[s])
             /\ Out.objects[m[s]].Type = Src.objects[s].Type
             /\ CopiedRefs(RefsOf(Src.objects[s]), RefsOf(Out.objects[m[s]]), m)

(* C1 as stated: for every source document and every page number p in      *)
(* 1..page count, extract_pdf_page succeeds, the output's page tree holds  *)
(* exactly the copy of page p (Kids = [that page], Count = 1), and every   *)
(* content and resource reference reachable from the page that resolved in *)
(* the source resolves in the output to the copy of the same object.       *)
C1_ExtractEveryDocument == (Done /\ ExtractValid) => ExtractOnePage

(* C1 within the cap: the same, for every source document in which the     *)
(* identifiers reachable from page p (resolving or not) number at most     *)
(* the copy loop's cap, 2 * (objects of the source + 1).                   *)
C1_ExtractWithinCap == (Done /\ ExtractValid /\ ExtractWithinCap) => ExtractOnePage

C1_Witness ==
    /\ Done /\ ExtractValid /\ ExtractWithinCap /\ result = "ok"
    /\ args.path = "b.pdf" /\ args.page_number = 2
    /\ Len(SrcPages) > 1

----------------------------------------------------------------------------
(* C2 *)

SplitOk == Done /\ op = "split" /\ result = "ok"

(* C2: after a split of the page list [p1..pn] (repeats allowed) the       *)
(* output tree node's Kids has length n, Count is n, Kids[i] references    *)
(* the copy of source page p_i, so the order is the request order, and a   *)
(* repeated number gives repeated entries for one copied page object.      *)
C2_SplitKidsInRequestOrder ==
    SplitOk =>
        LET m == cp.id_map
            root == RootPagesId(Out)
            kids == Out.objects[root].Kids
            n == Len(args.pages)
        IN /\ HasObject(Out, root)
           /\ Len(kids) = n
           /\ Out.objects[root].Count = n
           /\ \A i \in 1..n :
                 /\ args.pages[i] \in DOMAIN SrcPages
                 /\ kids[i] = m[SrcPages[args.pages[i]]]
                 /\ HasObject(Out, kids[i])
                 /\ Out.objects[kids[i]].Type = "Page"
                 /\ Out.objects[kids[i]].Parent = <<root>>
                 /\ CopiedRefs(ContentRefs(Src.objects[SrcPages[args.pages[i]]]),
                               ContentRefs(Out.objects[kids[i]]), m)
           /\ \A i, j \in 1..n : (args.pages[i] = args.pages[j]) <=> (kids[i] = kids[j])

C2_Witness ==
    /\ SplitOk
    /\ \E i, j \in DOMAIN args.pages : i < j /\ args.pages[i] = args.pages[j]
    /\ \E i, j \in DOMAIN args.pages : i < j /\ args.pages[i] > args.pages[j]

----------------------------------------------------------------------------
(* C3 *)

MergeTwoOk == Done /\ op = "merge" /\ result = "ok" /\ Len(args.paths) = 2

(* C3: merging two documents of a and b pages, whatever the shape of their *)
(* page trees, gives an output whose page tree has a+b pages, whose root   *)
(* tree node's Count is a+b, and in which every page copied from the       *)
(* second document has the first document's root tree node as Parent.      *)
C3_MergeCountIsPageTotal ==
    MergeTwoOk =>
        LET first == Load(args.paths[1])
            second == Load(args.paths[2])
            total == Len(GetPages(first)) + Len(GetPages(second))
            root == RootPagesId(first)
        IN /\ RootPagesId(Out) = root
           /\ Len(GetPages(Out)) = total
           /\ Out.objects[root].Count = total
           /\ \A i \in DOMAIN GetPages(second) :
                 /\ GetPages(second)[i] \in DOMAIN cp.id_map
                 /\ Out.objects[cp.id_map[GetPages(second)[i]]].Parent = <<root>>

----------------------------------------------------------------------------
(* C4 *)

DeleteValid ==
    /\ op = "delete"
    /\ Loads(args.path)
    /\ args.pages # <<>>
    /\ \A i \in DOMAIN args.pages : args.pages[i] \in DOMAIN SrcPages

(* the source pages whose number is not listed, in source order *)
Survivors ==
    LET kept == SortedSeq(DOMAIN SrcPages \ Range(args.pages))
    IN [i \in DOMAIN kept |-> SrcPages[kept[i]]]

(* C4: delete_pages on an n-page document with a non-empty list whose k    *)
(* distinct numbers are in range (k = n included) gives a document of      *)
(* n-k pages, numbered 1..n-k, the survivors in their source order.        *)
C4_DeleteKeepsTheOthersInOrder ==
    (Done /\ DeleteValid) =>
        /\ result = "ok"
        /\ fs.outFile.present
        /\ GetPages(Out) = Survivors
        /\ Len(GetPages(Out)) = Len(SrcPages) - Cardinality(Range(args.pages))
        /\ DOMAIN GetPages(Out) = 1..(Len(SrcPages) - Cardinality(Range(args.pages)))
        /\ \A i \in DOMAIN GetPages(Out) : HasObject(Out, GetPages(Out)[i])

C4_Witness ==
    /\ Done /\ DeleteValid /\ result = "ok"
    /\ Len(SrcPages) = 3
    /\ Range(args.pages) = {1, 2}
    /\ Len(args.pages) > 2

----------------------------------------------------------------------------
(* C5, C6 *)

RotateOk == Done /\ op = "rotate" /\ result = "ok"

(* how many times the loop of rotate_pdf visits the page object q *)
TimesTargeted(q) ==
    IF args.pages = <<>> THEN 1
    ELSE Cardinality({i \in DOMAIN args.pages : SrcPages[args.pages[i]] = q})

StoredOrZero(rotate) == IF rotate = <<>> THEN 0 ELSE rotate[1]

(* C5: for every stored Rotate value (absent = 0), rotating by 90 twice    *)
(* in succession stores the same value as rotating by 180 once: a second   *)
(* rotation by 90 of what a rotation by 90 stored equals one rotation by   *)
(* 180 of the source value.                                                *)
C5_TwoQuarterTurnsAreAHalfTurn ==
    (RotateOk /\ args.rotation = 90) =>
        \A i \in DOMAIN SrcPages :
            TimesTargeted(SrcPages[i]) = 1 =>
                NewRotation(Out.objects[SrcPages[i]].Rotate, 90)
                    = NewRotation(Src.objects[SrcPages[i]].Rotate, 180)

(* C6: after rotate_pdf the Rotate stored on each targeted page is         *)
(* (existing + angle) mod 360, existing = 0 when absent, for every allowed *)
(* angle, the negative ones included: a value within 0..359.               *)
C6_RotationStoredMod360 ==
    RotateOk =>
        \A i \in DOMAIN SrcPages :
            TimesTargeted(SrcPages[i]) = 1 =>
                /\ Out.objects[SrcPages[i]].Rotate =
                       <<(StoredOrZero(Src.objects[SrcPages[i]].Rotate) + args.rotation) % 360>>
                /\ Out.objects[SrcPages[i]].Rotate[1] \in 0..359

----------------------------------------------------------------------------
(* C7 *)

OutOfRange(n) == Loads(args.path) /\ n > Len(SrcPages)

InvalidInput ==
    \/ op = "extract" /\ (args.page_number = 0 \/ OutOfRange(args.page_number))
    \/ /\ op \in {"split", "delete"}
       /\ \/ args.pages = <<>>
          \/ \E i \in DOMAIN args.pages : args.pages[i] = 0 \/ OutOfRange(args.pages[i])
    \/ /\ op = "rotate"
       /\ \/ args.rotation \notin AllowedAngles
          \/ \E i \in DOMAIN args.pages : args.pages[i] = 0 \/ OutOfRange(args.pages[i])

(* C7: extract with page number 0 or beyond the page count, split or       *)
(* delete with an empty list, a 0 or an out-of-range number, rotate with a *)
(* disallowed angle or a listed page not in the document: the call returns *)
(* an error, the loaded document is not changed, nothing is written, and   *)
(* the file at the output path is what it was before the call.             *)
C7_InvalidInputWritesNothing ==
    (Done /\ InvalidInput) =>
        /\ result \notin {"ok", "none"}
        /\ "write" \notin Range(log)
        /\ fs.outFile = fs0.outFile
        /\ doc \in {EmptyDoc, Src}

C7_Witness ==
    /\ Done /\ InvalidInput
    /\ op = "delete" /\ Loads(args.path)
    /\ fs0.outFile.present
    /\ \E i \in DOMAIN args.pages : args.pages[i] > Len(SrcPages)
    /\ \E i \in DOMAIN args.pages : args.pages[i] \in DOMAIN SrcPages

----------------------------------------------------------------------------
(* C8 *)

Writes == Cardinality({i \in DOMAIN log : log[i] = "write"})

(* C8: in every operation that has an output path (parse_pdf has none and  *)
(* writes nothing) the output file is written at most once, as the         *)
(* last step of a call that returns Ok; a call that returns an error (a    *)
(* later merge input that does not load, the loop limit, a page missing    *)
(* from the mapping) has not written to the output path.                   *)
C8_WrittenOnceAtTheEnd ==
    /\ Writes <= 1
    /\ Writes = 1 => (Done /\ result = "ok" /\ log[Len(log)] = "write")
    /\ ~(Done /\ result = "ok") => fs.outFile = fs0.outFile
    /\ (Done /\ result = "ok" /\ op # "parse") => Writes = 1

C8_Witness ==
    /\ Done /\ op = "merge" /\ result = "ErrLoad"
    /\ loc.idx = 3
    /\ DOMAIN new_doc.objects # DOMAIN Load(args.paths[1]).objects
    /\ fs0.outFile.present

----------------------------------------------------------------------------
(* C9 *)

InvalidArgumentErrors ==
    {"ErrPageZero", "ErrEmptyList", "ErrNoInputs", "ErrInvalidPage", "ErrInvalidAngle"}

----------------------------------------------------------------------------
(* C10 *)

NotFoundErrors == {"ErrInputNotFound", "ErrPageNotFound"}

(* C10: a NotFound condition (missing input file, requested page number    *)
(* absent from the loaded document) is returned before the operation       *)
(* creates the output directory: an extract, split or rotate call that     *)
(* fails with "page not found" has created no directory.                   *)
C10_NotFoundBeforeOutputDir ==
    (Done /\ result \in NotFoundErrors) =>
        /\ "mkdir" \notin Range(log)
        /\ fs.dirExists = fs0.dirExists

----------------------------------------------------------------------------
(* C11 *)

(* manual_deep_copy is running, or has just returned Ok(id_map) *)
InDeepCopy == op \in {"extract", "split"} /\ pc = "deep_copy"

DeepCopyReturned == op \in {"extract", "split"} /\ pc \in {"extract_assemble", "split_assemble"}

CopyRoots == loc.page_ids_to_copy

(* the identifiers the first pass can dequeue: each root as often as it is *)
(* listed, every other reachable identifier once                           *)
Dequeues(source, roots) ==
    Len(roots) + Cardinality(Reach(source, Range(roots)) \ Range(roots))

(* the pairs A, B of distinct source objects with A -> B and B -> A *)
Cycles(source) ==
    {ab \in (DOMAIN source.objects) \X (DOMAIN source.objects) :
        /\ ab[1] # ab[2]
        /\ ab[2] \in Range(RefsOf(source.objects[ab[1]]))
        /\ ab[1] \in Range(RefsOf(source.objects[ab[2]]))}

(* position by position, the copy holds the mapped identifier wherever the *)
(* source reference resolved, and that identifier is an object of target   *)
RefsRewritten(source, target, srcRefs, outRefs, m) ==
    /\ Len(srcRefs) = Len(outRefs)
    /\ \A i \in DOMAIN srcRefs :
          HasObject(source, srcRefs[i]) =>
              /\ srcRefs[i] \in DOMAIN m
              /\ outRefs[i] = m[srcRefs[i]]
              /\ HasObject(target, outRefs[i])

(* C11: manual_deep_copy of a source graph with a reference cycle          *)
(* A -> B -> A terminates (the dequeues done and pending never exceed the   *)
(* roots plus the other reachable identifiers, and the loop limit is not   *)
(* hit when that number is within it) and, once it has returned Ok, the    *)
(* target holds distinct copies A' and B', A' referencing B' and B'        *)
(* referencing A' by their new identifiers, every reference of A' and B'   *)
(* that resolved in the source being the mapped identifier and none the    *)
(* source identifier.                                                      *)
C11_CycleCopiedOnceAndClosed ==
    /\ InDeepCopy =>
          cp.loop_count + Len(cp.queue) <= Dequeues(doc, CopyRoots)
    /\ (Done /\ op \in {"extract", "split"} /\ result = "ErrDeepCopy") =>
          Dequeues(doc, CopyRoots) > cp.max_loops
    /\ DeepCopyReturned =>
          \A ab \in Cycles(doc) :
              ab[1] \in Reach(doc, Range(CopyRoots)) =>
                  LET m == cp.id_map
                  IN /\ ab[1] \in DOMAIN m /\ ab[2] \in DOMAIN m
                     /\ m[ab[1]] # m[ab[2]]
                     /\ HasObject(new_doc, m[ab[1]]) /\ HasObject(new_doc, m[ab[2]])
                     /\ new_doc.objects[m[ab[1]]].Type = doc.objects[ab[1]].Type
                     /\ m[ab[2]] \in Range(RefsOf(new_doc.objects[m[ab[1]]]))
                     /\ m[ab[1]] \in Range(RefsOf(new_doc.objects[m[ab[2]]]))
                     /\ RefsRewritten(doc, new_doc, RefsOf(doc.objects[ab[1]]),
                                      RefsOf(new_doc.objects[m[ab[1]]]), m)

C11_Witness ==
    /\ DeepCopyReturned
    /\ <<9, 10>> \in Cycles(doc)
    /\ <<CopyRoots[1], doc.objects[CopyRoots[1]].Parent[1]>> \in Cycles(doc)
    /\ {9, 10} \subseteq DOMAIN cp.id_map
    /\ cp.id_map[10] # 10

----------------------------------------------------------------------------
(* C12 *)

BuildOk == Done /\ result = "ok" /\ op \in {"extract", "split", "merge"}

(* the tree nodes reachable from the root tree node through Kids *)
RECURSIVE TreeNodes(_, _)
TreeNodes(d, S) ==
    LET T == S \cup {k \in UNION {Range(d.objects[n].Kids) : n \in S} :
                        HasObject(d, k) /\ d.objects[k].Type = "Pages"}
    IN IF T = S THEN S ELSE TreeNodes(d, T)

(* Root -> Catalog -> Pages -> Kids all resolve, and every page reachable  *)
(* through Kids has one Parent, a tree node of the tree that lists it      *)
PageTreeClosed(d) ==
    /\ HasObject(d, d.Root)
    /\ d.objects[d.Root].Type = "Catalog"
    /\ Len(d.objects[d.Root].Pages) = 1
    /\ HasObject(d, RootPagesId(d))
    /\ d.objects[RootPagesId(d)].Type = "Pages"
    /\ \A n \in TreeNodes(d, {RootPagesId(d)}) :
          \A i \in DOMAIN d.objects[n].Kids : HasObject(d, d.objects[n].Kids[i])
    /\ \A i \in DOMAIN GetPages(d) :
          LET page == d.objects[GetPages(d)[i]]
          IN /\ Len(page.Parent) = 1
             /\ page.Parent[1] \in TreeNodes(d, {RootPagesId(d)})
             /\ GetPages(d)[i] \in Range(d.objects[page.Parent[1]].Kids)

(* C12 as stated: after any successful extract, split or merge the output's *)
(* Root resolves to a Catalog, its Pages to a tree node of the output,     *)
(* every Kids entry resolves, and every page reachable through Kids has    *)
(* exactly one Parent, resolving to a tree node present in the output.     *)
C12_OutputTreeClosed == BuildOk => PageTreeClosed(Out)

(* C12 for the outputs the operations build: the same after any successful *)
(* extract or split and any successful merge of two or more documents; a   *)
(* merge of a single path copies the file unread, so its output has the    *)
(* property when the input is a document that has it.                      *)
C12_BuiltTreeClosed ==
    (BuildOk /\ (Len(args.paths) = 1 => Loads(args.paths[1]))) => PageTreeClosed(Out)

C12_Witness ==
    /\ BuildOk /\ op = "merge"
    /\ args.paths = <<"b.pdf", "b.pdf", "a.pdf">>
    /\ Len(GetPages(Out)) = 7

----------------------------------------------------------------------------
(* C13 *)

(* the first document's root tree node lists only pages *)
FlatFirst ==
    op = "merge" =>
        LET first == Load(args.paths[1])
        IN \A i \in DOMAIN first.objects[RootPagesId(first)].Kids :
              first.objects[first.objects[RootPagesId(first)].Kids[i]].Type = "Page"

BuiltFromDocuments == BuildOk /\ (Len(args.paths) = 1 => Loads(args.paths[1]))

(* C13: after any successful extract, split or merge the root tree node's  *)
(* Count is the number of page leaves reached through its Kids             *)
(* transitively (each Kids entry counted, as the page numbering does), for *)
(* a merge whose first document's root Kids holds intermediate tree nodes  *)
(* and for a split with repeated page numbers too.                         *)
C13_CountIsLeafCount ==
    BuiltFromDocuments =>
        Out.objects[RootPagesId(Out)].Count = Len(GetPages(Out))

(* the same, for the outputs whose root Kids holds pages only *)
C13_CountOfFlatRoot ==
    (BuiltFromDocuments /\ FlatFirst) =>
        Out.objects[RootPagesId(Out)].Count = Len(GetPages(Out))

----------------------------------------------------------------------------
(* C14 *)

(* max_id is at least every object number of the document *)
MaxIdCoversIds(d) == \A id \in DOMAIN d.objects : id <= d.max_id

(* an iteration of pass 1 of merge_and_shift_objects that inserted *)
MergeInserted == pc = "merge_copy" /\ DOMAIN cp'.id_map # DOMAIN cp.id_map

(* C14: in a merge of two or more documents, each loaded with a max_id at  *)
(* least every identifier it holds, every insertion of                     *)
(* merge_and_shift_objects targets an identifier not yet present in the    *)
(* target: the objects of the first document and of the documents          *)
(* transplanted before are all kept as they are, none overwritten.         *)
C14_MergeInsertsAtFreshIds ==
    [][(MergeInserted /\ \A i \in DOMAIN args.paths : MaxIdCoversIds(Load(args.paths[i])))
          => LET new_ids == DOMAIN cp'.id_map \ DOMAIN cp.id_map
             IN /\ Cardinality(new_ids) = 1
                /\ \A k \in new_ids :
                      /\ cp'.id_map[k] \notin DOMAIN new_doc.objects
                      /\ cp'.id_map[k] \in DOMAIN new_doc'.objects
                      /\ cp'.id_map[k] > loc.id_offset
                /\ \A id \in DOMAIN new_doc.objects :
                      /\ id \in DOMAIN new_doc'.objects
                      /\ new_doc'.objects[id] = new_doc.objects[id]]_vars

C14_Witness ==
    /\ op = "merge" /\ pc = "merge_copy"
    /\ loc.idx = 3
    /\ loc.id_offset = Load(args.paths[1]).max_id + Load(args.paths[2]).max_id
    /\ Cardinality(DOMAIN cp.id_map) > 1
    /\ args.paths[2] = args.paths[3]

----------------------------------------------------------------------------
(* C15 *)

(* C15: after a successful extract, split or merge the target's max_id is  *)
(* at least the largest object number of the target, the tree-node and     *)
(* catalog identifiers reserved before the transplant included, so a fresh *)
(* allocation returns an unused identifier; in extract and split the       *)
(* reserved identifiers are given to no transplanted object and are still  *)
(* free when the tree node and the catalog are inserted.                   *)
C15_MaxIdCoversTarget ==
    /\ BuildOk =>
          /\ MaxIdCoversIds(Out)
          /\ ~HasObject(Out, NewObjectId(Out).max_id)
          /\ op \in {"extract", "split"} =>
                /\ loc.new_pages_id <= Out.max_id /\ loc.new_catalog_id <= Out.max_id
                /\ \A k \in DOMAIN cp.id_map :
                      cp.id_map[k] \notin {loc.new_pages_id, loc.new_catalog_id}
                /\ Cardinality(DOMAIN Out.objects) = Cardinality(DOMAIN cp.id_map) + 2
    /\ pc \in {"extract_assemble", "split_assemble"} =>
          /\ ~HasObject(new_doc, loc.new_pages_id)
          /\ ~HasObject(new_doc, loc.new_catalog_id)
          /\ loc.new_pages_id # loc.new_catalog_id
          /\ Cardinality(DOMAIN new_doc.objects) = Cardinality(DOMAIN cp.id_map)

C15_Witness ==
    /\ BuildOk /\ op = "merge"
    /\ Len(args.paths) = 3
    /\ Out.max_id > Load(args.paths[1]).max_id + Load(args.paths[2]).max_id
    /\ HasObject(Out, Out.max_id)

----------------------------------------------------------------------------
(* C16 *)

MergeDone == Done /\ op = "merge"

(* C16: merge_pdfs with exactly one path, an existing file, writes an      *)
(* output whose bytes are those of the input, without loading, validating  *)
(* or modifying a document (a file that is not a PDF is copied too);       *)
(* merge_pdfs with an empty list returns an error and writes nothing.      *)
C16_SingleMergeIsFileCopy ==
    /\ (MergeDone /\ Len(args.paths) = 1 /\ Exists(args.paths[1])) =>
          /\ result = "ok"
          /\ fs.outFile.present
          /\ fs.outFile.bytesOf = args.paths[1]
          /\ fs.outFile.doc = Load(args.paths[1])
          /\ "load" \notin Range(log)
          /\ Writes = 1
          /\ doc = EmptyDoc /\ new_doc = EmptyDoc /\ cp = NoCopy
    /\ (MergeDone /\ args.paths = <<>>) =>
          /\ result = "ErrNoInputs"
          /\ log = <<>>
          /\ fs = fs0

C16_Witness ==
    /\ MergeDone /\ result = "ok"
    /\ args.paths = <<"x.txt">>
    /\ fs0.outFile.present /\ fs0.outFile.bytesOf # "x.txt"

----------------------------------------------------------------------------
(* C17 *)

(* the page objects rotate_pdf targets: all when the list is empty *)
Targeted ==
    IF args.pages = <<>> THEN Range(SrcPages)
    ELSE {SrcPages[args.pages[i]] : i \in DOMAIN args.pages}

(* C17: rotate_pdf writes the Rotate entry of exactly the targeted pages   *)
(* (every page when the list is empty, otherwise the listed ones) and of   *)
(* nothing else: a targeted page differs from the source page in Rotate    *)
(* only, every other page keeps its Rotate (absent stays absent), and      *)
(* every other object, the counter and the trailer are as loaded.          *)
C17_RotateTouchesOnlyTargetedRotate ==
    RotateOk =>
        /\ DOMAIN Out.objects = DOMAIN Src.objects
        /\ Out.max_id = Src.max_id /\ Out.Root = Src.Root
        /\ \A id \in DOMAIN Src.objects :
              IF id \in Targeted
              THEN /\ Len(Out.objects[id].Rotate) = 1
                   /\ [Out.objects[id] EXCEPT !.Rotate = Src.objects[id].Rotate]
                         = Src.objects[id]
              ELSE Out.objects[id] = Src.objects[id]

C17_Witness ==
    /\ RotateOk
    /\ args.path = "a.pdf" /\ args.rotation = 90
    /\ Targeted = {SrcPages[1], SrcPages[3]}
    /\ Out.objects[SrcPages[2]].Rotate = <<>>
    /\ Out.objects[SrcPages[3]].Rotate = <<90>>

----------------------------------------------------------------------------
(* C18 *)

ParseDone == Done /\ op = "parse"

(* the string-valued entries of the Info dictionary, by position *)
StringEntries ==
    IF HasInfoDict(Src)
    THEN {i \in DOMAIN Src.objects[Src.Info.id].Entries :
             Src.objects[Src.Info.id].Entries[i].isString}
    ELSE {}

InfoEntry(i) == Src.objects[Src.Info.id].Entries[i]

(* Err exactly when the document does not load; an empty map when there is *)
(* no Info entry, a direct one, or a reference to a missing object or to   *)
(* an object that is not a dictionary                                      *)
ParseErrorsOnlyOnLoad ==
    /\ result = (IF Loads(args.path) THEN "ok" ELSE "ErrLoad")
    /\ ~Loads(args.path) => loc.metadata = <<>>
    /\ (Loads(args.path) /\ ~HasInfoDict(Src)) => loc.metadata = <<>>

(* C18 as stated: parse_pdf returns a map holding exactly the entries of   *)
(* the Info dictionary whose values are strings, one map entry per such    *)
(* entry, each with the entry's decoded value, and nothing for the other   *)
(* entries; Ok with an empty map when there is no usable Info dictionary;  *)
(* an error only when the document does not load.                          *)
C18_MetadataIsTheStringEntries ==
    ParseDone =>
        /\ ParseErrorsOnlyOnLoad
        /\ Loads(args.path) =>
              /\ Cardinality(DOMAIN loc.metadata) = Cardinality(StringEntries)
              /\ \A i \in StringEntries :
                    /\ Utf8Lossy(InfoEntry(i).key) \in DOMAIN loc.metadata
                    /\ loc.metadata[Utf8Lossy(InfoEntry(i).key)]
                          = DecodePdfString(InfoEntry(i).bytes)

(* C18, by converted key: the keys of the map are the lossy UTF-8 readings *)
(* of the keys of the string-valued entries, and each is mapped to the     *)
(* decoded value of the last such entry under that reading; one map entry  *)
(* per string-valued entry when the readings differ.                       *)
C18_MetadataByConvertedKey ==
    ParseDone =>
        /\ ParseErrorsOnlyOnLoad
        /\ Loads(args.path) =>
              /\ DOMAIN loc.metadata = {Utf8Lossy(InfoEntry(i).key) : i \in StringEntries}
              /\ \A k \in DOMAIN loc.metadata :
                    LET last == CHOOSE i \in StringEntries :
                                   /\ Utf8Lossy(InfoEntry(i).key) = k
                                   /\ \A j \in StringEntries :
                                         Utf8Lossy(InfoEntry(j).key) = k => j <= i
                    IN loc.metadata[k] = DecodePdfString(InfoEntry(last).bytes)
              /\ (\A i, j \in StringEntries :
                     i # j => Utf8Lossy(InfoEntry(i).key) # Utf8Lossy(InfoEntry(j).key))
                    => Cardinality(DOMAIN loc.metadata) = Cardinality(StringEntries)

C18_Witness ==
    /\ ParseDone /\ result = "ok"
    /\ args.path = "info.pdf"
    /\ Cardinality(StringEntries) = 4
    /\ loc.metadata = (<<84>> :> <<8211, 128512>>) @@ (<<65>> :> <<77, 233>>)
                         @@ (<<65533>> :> <<254, 255, 216, 61, 0>>)

----------------------------------------------------------------------------
(* C19 *)

(* merge_and_shift_objects has just returned Ok(id_map) *)
MergeCopyReturned == op = "merge" /\ pc = "merge_collect"

(* the identifiers reachable from the roots that are objects of the source *)
Closure(source, roots) == Reach(source, Range(roots)) \cap DOMAIN source.objects

(* every key is mapped to an object of the target of the key's type, and   *)
(* no two keys to the same one                                             *)
MappedToCopies(m) ==
    /\ \A k \in DOMAIN m :
          /\ HasObject(new_doc, m[k])
          /\ new_doc.objects[m[k]].Type = doc.objects[k].Type
    /\ \A j, k \in DOMAIN m : j # k => m[j] # m[k]

(* C19: when manual_deep_copy or merge_and_shift_objects returns Ok, the   *)
(* domain of the returned mapping is exactly the set of source identifiers *)
(* that are reachable from the roots through references and are objects    *)
(* of the source: each of them, page or not, is copied and mapped, and no  *)
(* other identifier is.                                                    *)
C19_MappingDomainIsTheClosure ==
    /\ DeepCopyReturned =>
          /\ DOMAIN cp.id_map = Closure(doc, CopyRoots)
          /\ MappedToCopies(cp.id_map)
    /\ MergeCopyReturned =>
          /\ DOMAIN cp.id_map = Closure(doc, GetPages(doc))
          /\ MappedToCopies(cp.id_map)

C19_Witness ==
    /\ MergeCopyReturned
    /\ args.paths[loc.idx] = "b.pdf"
    /\ 55 \in Reach(doc, Range(GetPages(doc))) \ DOMAIN cp.id_map
    /\ \E k \in DOMAIN cp.id_map : doc.objects[k].Type = "Font"
    /\ 1 \notin DOMAIN cp.id_map

----------------------------------------------------------------------------
(* C20 *)

(* some object of the closure holds a reference that is no object *)
HasUnresolved(source, roots) ==
    Reach(source, Range(roots)) \ DOMAIN source.objects # {}

TransplantRoots == IF op = "merge" THEN GetPages(doc) ELSE CopyRoots

(* C20: when objects of the closure hold references to identifiers that    *)
(* are no objects of the source, however many, the transplant drops them   *)
(* and still returns Ok with every resolvable reachable object copied:     *)
(* unresolved references alone never make the operation fail.              *)
C20_UnresolvedNeverFail ==
    /\ (Done /\ op \in {"extract", "split", "merge"}) => result # "ErrDeepCopy"
    /\ ((DeepCopyReturned \/ MergeCopyReturned) /\ HasUnresolved(doc, TransplantRoots)) =>
          /\ Closure(doc, TransplantRoots) \subseteq DOMAIN cp.id_map
          /\ \A k \in DOMAIN cp.id_map : HasObject(new_doc, cp.id_map[k])

----------------------------------------------------------------------------
(* C21 *)

InMergeCopy == op = "merge" /\ pc = "merge_copy"

LoopLimitHit == cp.loop_count > cp.max_loops

(* C21: the transplant loop is bounded by a cap proportional to the source *)
(* size, (source objects + roots) * 2 in manual_deep_copy and source       *)
(* objects * 2 + 10 in merge_and_shift_objects: its body never runs more   *)
(* than cap + 1 times, and when the cap is exceeded the transplant returns *)
(* an error that the operation returns in turn, no output being written.   *)
C21_LoopBoundedByCap ==
    /\ InDeepCopy =>
          cp.max_loops = (Cardinality(DOMAIN doc.objects) + Len(CopyRoots)) * 2
    /\ InMergeCopy =>
          cp.max_loops = Cardinality(DOMAIN doc.objects) * 2 + 10
    /\ cp.loop_count <= cp.max_loops + 1
    /\ LoopLimitHit =>
          /\ Done /\ result = "ErrDeepCopy"
          /\ "write" \notin Range(log)
          /\ fs.outFile = fs0.outFile
    /\ (Done /\ result = "ErrDeepCopy") => LoopLimitHit

C21_Witness ==
    /\ LoopLimitHit
    /\ op = "merge" /\ loc.idx = 3
    /\ cp.loop_count = 17
    /\ fs0.outFile.present

C21_WitnessDeepCopy ==
    /\ LoopLimitHit
    /\ op = "split" /\ Len(CopyRoots) = 3
    /\ cp.loop_count = 13

----------------------------------------------------------------------------
(* C22 *)

(* position by position: the mapped identifier for a key of the mapping,   *)
(* the source identifier otherwise                                         *)
RewrittenOnce(srcRefs, outRefs, m) ==
    /\ Len(outRefs) = Len(srcRefs)
    /\ \A i \in DOMAIN srcRefs :
          outRefs[i] = IF srcRefs[i] \in DOMAIN m THEN m[srcRefs[i]] ELSE srcRefs[i]

(* the copy differs from the source object in its references only *)
CopyOf(src, out, m) ==
    /\ RewrittenOnce(src.Parent, out.Parent, m)
    /\ RewrittenOnce(src.Kids, out.Kids, m)
    /\ RewrittenOnce(src.Contents, out.Contents, m)
    /\ RewrittenOnce(src.Resources, out.Resources, m)
    /\ RewrittenOnce(src.Pages, out.Pages, m)
    /\ RewrittenOnce(src.Refs, out.Refs, m)
    /\ out.Type = src.Type /\ out.Count = src.Count
    /\ out.Rotate = src.Rotate /\ out.Entries = src.Entries

(* C22: after a successful manual_deep_copy each copied object is its      *)
(* source object with every reference r replaced by mapping[r] when r is a *)
(* key of the mapping and left as r otherwise, each reference rewritten    *)
(* once (a new identifier that is also a key is not mapped again), and     *)
(* everything that is not a reference unchanged.                           *)
C22_CopiesRewrittenOnce ==
    DeepCopyReturned =>
        \A k \in DOMAIN cp.id_map :
            /\ HasObject(new_doc, cp.id_map[k])
            /\ CopyOf(doc.objects[k], new_doc.objects[cp.id_map[k]], cp.id_map)

C22_Witness ==
    /\ DeepCopyReturned
    /\ \E k \in DOMAIN cp.id_map :
          /\ cp.id_map[k] \in DOMAIN cp.id_map
          /\ cp.id_map[cp.id_map[k]] # cp.id_map[k]
          /\ \E j \in DOMAIN cp.id_map : k \in Range(RefsOf(doc.objects[j]))
    /\ \E k \in DOMAIN cp.id_map : 55 \in Range(new_doc.objects[cp.id_map[k]].Refs)

----------------------------------------------------------------------------
(* C23 *)

(* the references of a copy that update_references_recursive(_merge) may   *)
(* leave as they were: all but the Parent a page is given afterwards       *)
LeftAlone(o) ==
    (IF o.Type = "Page" THEN <<>> ELSE o.Parent)
        \o o.Kids \o o.Contents \o o.Resources \o o.Pages \o o.Refs

TransplantOk == BuildOk /\ (op = "merge" => Len(args.paths) >= 2)

(* C23: after extract, split or merge, a reference inside a transplanted   *)
(* object whose identifier is not a key of the mapping resolves to no      *)
(* object of the target: it never points at an unrelated target object     *)
(* that carries the same identifier.                                       *)
C23_UnmappedReferencesDangle ==
    TransplantOk =>
        \A k \in DOMAIN cp.id_map :
            \A i \in DOMAIN LeftAlone(doc.objects[k]) :
                LeftAlone(doc.objects[k])[i] \notin DOMAIN cp.id_map =>
                    /\ LeftAlone(Out.objects[cp.id_map[k]])[i] = LeftAlone(doc.objects[k])[i]
                    /\ ~HasObject(Out, LeftAlone(Out.objects[cp.id_map[k]])[i])

(* the unmapped references are left as they were *)
C23_UnmappedReferencesKept ==
    TransplantOk =>
        \A k \in DOMAIN cp.id_map :
            \A i \in DOMAIN LeftAlone(doc.objects[k]) :
                LeftAlone(doc.objects[k])[i] \notin DOMAIN cp.id_map =>
                    LeftAlone(Out.objects[cp.id_map[k]])[i] = LeftAlone(doc.objects[k])[i]

----------------------------------------------------------------------------
(* C24 *)

Injective(m) == \A j, k \in DOMAIN m : j # k => m[j] # m[k]

(* C24: within one transplant each source identifier is cloned into the    *)
(* target at most once, whether it is listed several times among the       *)
(* roots, referenced by several objects or on a cycle: in every step of    *)
(* the copy loop the mapping keeps the entries it has, is injective, and   *)
(* grows by as many entries as the target grows by objects.                *)
C24_ClonedOncePerIdentifier ==
    [][(InDeepCopy \/ InMergeCopy) =>
          /\ DOMAIN cp.id_map \subseteq DOMAIN cp'.id_map
          /\ \A k \in DOMAIN cp.id_map : cp'.id_map[k] = cp.id_map[k]
          /\ Injective(cp'.id_map)
          /\ Cardinality(DOMAIN new_doc'.objects) - Cardinality(DOMAIN new_doc.objects)
                = Cardinality(DOMAIN cp'.id_map) - Cardinality(DOMAIN cp.id_map)
          /\ op \in {"extract", "split"} =>
                Cardinality(DOMAIN new_doc'.objects) = Cardinality(DOMAIN cp'.id_map)]_vars

C24_Witness ==
    /\ DeepCopyReturned /\ op = "split"
    /\ args.path = "a.pdf"
    /\ \E i, j \in DOMAIN CopyRoots : i < j /\ CopyRoots[i] = CopyRoots[j]
    /\ Cardinality(Range(CopyRoots)) = 2
    /\ Cardinality({k \in DOMAIN cp.id_map : 3 \in Range(doc.objects[k].Resources)}) = 3
    /\ Cardinality(DOMAIN new_doc.objects) = 9

----------------------------------------------------------------------------
(* C25 *)

First == Load(args.paths[1])

(* the sum of the max_id of the first j - 1 inputs: the offset of input j *)
RECURSIVE OffsetOf(_)
OffsetOf(j) == IF j <= 1 THEN 0 ELSE OffsetOf(j - 1) + Load(args.paths[j - 1]).max_id

(* the copies of the pages of the inputs 2..j, input by input, each in its *)
(* page-number order                                                       *)
RECURSIVE CopiedPagesUpTo(_)
CopiedPagesUpTo(j) ==
    IF j <= 1 THEN <<>>
    ELSE CopiedPagesUpTo(j - 1)
            \o [i \in DOMAIN GetPages(Load(args.paths[j])) |->
                   GetPages(Load(args.paths[j]))[i] + OffsetOf(j)]

MergeManyOk == MergeDone /\ result = "ok" /\ Len(args.paths) >= 2

(* C25: in the output of a merge of d1, .., dk (k >= 2) the root tree      *)
(* node's Kids is d1's Kids unchanged, followed by the copies of d2's      *)
(* pages in d2's page order, then those of d3, and so on in the order of   *)
(* the input paths; Kids is extended once, after all inputs are folded in. *)
C25_MergeKidsInInputOrder ==
    /\ MergeManyOk =>
          LET root == RootPagesId(First)
              kids == Out.objects[root].Kids
              copied == CopiedPagesUpTo(Len(args.paths))
          IN /\ kids = First.objects[root].Kids \o copied
             /\ \A i \in DOMAIN copied :
                   /\ HasObject(Out, copied[i])
                   /\ Out.objects[copied[i]].Type = "Page"
                   /\ copied[i] \notin DOMAIN First.objects
             /\ \A i, j \in DOMAIN copied : i # j => copied[i] # copied[j]
    /\ (op = "merge" /\ pc \in {"merge_loop", "merge_copy", "merge_collect"}) =>
          new_doc.objects[loc.target_pages_id].Kids
             = First.objects[RootPagesId(First)].Kids

C25_Witness ==
    /\ MergeManyOk
    /\ args.paths = <<"b.pdf", "a.pdf", "b.pdf">>
    /\ Out.objects[RootPagesId(Out)].Kids = <<3, 15, 17, 19, 24, 25>>

----------------------------------------------------------------------------
(* C26 *)

(* every reference of every object of the source is an object of it *)
AllResolve(source) ==
    \A id \in DOMAIN source.objects :
        Range(RefsOf(source.objects[id])) \subseteq DOMAIN source.objects

(* the identifiers queued at the entry of the running transplant *)
QueuedRoots == IF op = "merge" THEN Dedup(GetPages(doc), {}) ELSE CopyRoots

(* C26: for a source in which every reference resolves, the dequeues of a  *)
(* transplant (done and pending) number at most roots + source objects,    *)
(* which is at most the cap, so neither manual_deep_copy (whatever the     *)
(* root list, repeated roots included) nor merge_and_shift_objects returns *)
(* the loop-limit error on such a source.                                  *)
C26_ResolvingSourceWithinCap ==
    /\ ((InDeepCopy \/ InMergeCopy) /\ AllResolve(doc)) =>
          /\ cp.loop_count + Len(cp.queue)
                <= Len(QueuedRoots) + Cardinality(DOMAIN doc.objects)
          /\ Len(QueuedRoots) + Cardinality(DOMAIN doc.objects) <= cp.max_loops
          /\ cp.loop_count <= cp.max_loops
    /\ (Done /\ result = "ErrDeepCopy") => ~AllResolve(doc)

C26_Witness ==
    /\ InDeepCopy /\ AllResolve(doc)
    /\ Len(CopyRoots) = 3 /\ Cardinality(Range(CopyRoots)) = 1
    /\ cp.queue = <<>>
    /\ cp.loop_count = 11

----------------------------------------------------------------------------
(* C27 *)

PagesBuildOk == BuildOk /\ op \in {"extract", "split"}

(* the source tree node the requested page r has as Parent *)
ParentNode(r) == Src.objects[r].Parent[1]

(* C27: in extract and split the closure follows every reference of the    *)
(* requested page, its Parent too: when the Parent is the source tree node *)
(* whose Kids lists all pages, the source tree node and every other page   *)
(* of the source, with their contents, are copied into the output's        *)
(* objects as well, although the new tree node's Kids lists the requested  *)
(* pages only and the copied source tree node cannot be reached from the   *)
(* new catalog.                                                            *)
C27_ParentPullsInWholeTree ==
    PagesBuildOk =>
        LET m == cp.id_map
            fromCatalog == Reach(Out, {Out.Root})
        IN /\ Range(Out.objects[RootPagesId(Out)].Kids) = {m[r] : r \in Range(CopyRoots)}
           /\ \A r \in Range(CopyRoots) :
                 Range(Src.objects[ParentNode(r)].Kids) = Range(SrcPages) =>
                     /\ ParentNode(r) \in DOMAIN m
                     /\ HasObject(Out, m[ParentNode(r)])
                     /\ Out.objects[m[ParentNode(r)]].Type = "Pages"
                     /\ m[ParentNode(r)] \notin fromCatalog
                     /\ \A q \in Range(SrcPages) :
                           /\ q \in DOMAIN m
                           /\ HasObject(Out, m[q])
                           /\ Out.objects[m[q]].Type = "Page"
                           /\ m[q] \in Range(Out.objects[m[ParentNode(r)]].Kids)
                           /\ \A c \in Range(Src.objects[q].Contents) :
                                 c \in DOMAIN m /\ HasObject(Out, m[c])
                           /\ q \notin Range(CopyRoots) =>
                                 /\ m[q] \notin Range(Out.objects[RootPagesId(Out)].Kids)
                                 /\ m[q] \notin fromCatalog

(* the references the rewrite pass leaves with their source numbers name *)
(* no object of the output                                               *)
KeptReferencesDangle ==
    (Reach(Src, Range(CopyRoots)) \ DOMAIN Src.objects) \cap DOMAIN Out.objects = {}

(* what holds of C27: the same, for the outputs in which no reference that *)
(* was left with its source number names an object                         *)
C27_WholeTreeCopiedUnlessAliased ==
    KeptReferencesDangle => C27_ParentPullsInWholeTree

C27_Witness ==
    /\ PagesBuildOk /\ op = "extract"
    /\ args.path = "a.pdf" /\ args.page_number = 2
    /\ Len(GetPages(Out)) = 1
    /\ Cardinality({id \in DOMAIN Out.objects : Out.objects[id].Type = "Page"}) = 3
    /\ Cardinality({id \in DOMAIN Out.objects : Out.objects[id].Type = "Pages"}) = 2

----------------------------------------------------------------------------
(* C28 *)

(* the first document is the target and later documents are folded into it *)
Folding ==
    /\ op = "merge" /\ Len(args.paths) >= 2
    /\ \/ pc \in {"merge_loop", "merge_copy", "merge_collect", "merge_save"}
       \/ Done /\ result = "ok"

(* o is p with nothing changed but Kids, extended, and Count, recomputed *)
OnlyKidsExtended(o, p) ==
    /\ [o EXCEPT !.Kids = <<>>, !.Count = 0] = [p EXCEPT !.Kids = <<>>, !.Count = 0]
    /\ Len(o.Kids) >= Len(p.Kids)
    /\ SubSeq(o.Kids, 1, Len(p.Kids)) = p.Kids
    /\ (o.Kids # p.Kids \/ o.Count # p.Count) => o.Count = Len(o.Kids)

(* every object the first document had is in d as it was, the root tree *)
(* node apart                                                           *)
FirstKeptIn(d) ==
    \A id \in DOMAIN First.objects :
        /\ HasObject(d, id)
        /\ IF id = RootPagesId(First)
           THEN OnlyKidsExtended(d.objects[id], First.objects[id])
           ELSE d.objects[id] = First.objects[id]

(* the reference-rewrite pass of merge_and_shift_objects *)
MergeRewritePass == pc = "merge_copy" /\ pc' = "merge_collect"

----------------------------------------------------------------------------
(* C29 *)

(* the tree nodes above the object id of d, along Parent *)
RECURSIVE AncestorsOf(_, _)
AncestorsOf(d, S) ==
    LET T == S \cup UNION {Range(d.objects[i].Parent) : i \in S \cap DOMAIN d.objects}
    IN IF T = S THEN S ELSE AncestorsOf(d, T)

Without(s, D) == SelectSeq(s, LAMBDA x : x \notin D)

(* d without the page objects D: a function of the set D alone *)
WithoutPages(d, D) ==
    [d EXCEPT !.objects =
        [k \in DOMAIN @ \ D |->
            [@[k] EXCEPT !.Parent = Without(@, D), !.Contents = Without(@, D),
                         !.Resources = Without(@, D), !.Pages = Without(@, D),
                         !.Kids = Without(@, D), !.Refs = Without(@, D),
                         !.Count = @ - Cardinality({p \in D :
                                        k \in AncestorsOf(d, {p}) \ {p}})]]]

DeleteOk == Done /\ op = "delete" /\ result = "ok"

(* C29: the result of delete_pages depends on the set of the listed page    *)
(* numbers only: whatever the order and the repetitions of a valid list,    *)
(* the output is the source without the page objects that have the listed   *)
(* numbers in the source's numbering, so two lists of the same set give the *)
(* same document, and a number listed twice removes its page once and no    *)
(* neighbouring page in its place.                                          *)
C29_DeleteDependsOnTheSetOnly ==
    DeleteOk =>
        LET numbers == Range(args.pages)
            deleted == {SrcPages[n] : n \in numbers}
        IN /\ Out = WithoutPages(Src, deleted)
           /\ Cardinality(DOMAIN Src.objects \ DOMAIN Out.objects) = Cardinality(numbers)
           /\ \A n \in DOMAIN SrcPages \ numbers : HasObject(Out, SrcPages[n])

C29_Witness ==
    /\ DeleteOk
    /\ args.path = "a.pdf" /\ args.pages = <<2, 1, 2>>
    /\ Len(GetPages(Out)) = Len(SrcPages) - 2
    /\ HasObject(Out, SrcPages[3])

----------------------------------------------------------------------------
(* C30 *)

Rejected == op = "invoke" /\ Done /\ result = "ErrCommandNotFound"

(* C30: each of the five orchestrators (extract, split, merge, delete,     *)
(* rotate) is registered with the command dispatcher, so no invocation of  *)
(* one of them from the shell is rejected: it reaches its handler.         *)
C30_EveryOrchestratorReachesHandler ==
    /\ (pc = "dispatch" /\ args.cmd \in Orchestrators) => args.cmd \in Registered
    /\ ~(Rejected /\ args.cmd \in Orchestrators)

(* what holds: the invocations of extract, split, merge and parse_pdf reach *)
(* their handlers, those of delete_pages and rotate_pdf are rejected        *)
C30_RegisteredReachHandler ==
    /\ pc = "handler" => args.cmd \in {"extract_pdf_page", "split_pdf", "merge_pdfs", "parse_pdf"}
    /\ Rejected => args.cmd \in {"delete_pages", "rotate_pdf"}
    /\ (op = "invoke" /\ Done) => Rejected

C30_RejectedWitness == Rejected /\ args.cmd = "rotate_pdf"

====
